---- MODULE Spec2Model ----
(***************************************************************************)
(* Streaming de-identification export of privacydam-go.                    *)
(*                                                                         *)
(* Ex_exportData (process/util/db/external.go) starts one query producer   *)
(* (executeExportQuery), routineCount normalizers (transformQueryResult),  *)
(* routineCount de-identifiers (processDeIdentification) and one writer    *)
(* (writeExportedData), connected by three channels of capacity queueSize, *)
(* and then loops on a select over four completion channels.               *)
(* Ex_exportDataOnLambda runs the same protocol; its writer collects the   *)
(* lines in a buffer and stores them in res.Body before it publishes.      *)
(*                                                                         *)
(* Go strings are modelled as sequences of one-character strings, so that  *)
(* formatting and CSV encoding are computed character by character.        *)
(***************************************************************************)
EXTENDS Integers, Sequences, FiniteSets, TLC

(* ------------------------------------------------------------------ *)
(* Bounds of the model                                                 *)
(* ------------------------------------------------------------------ *)
MaxRoutines == 2
MaxQueue == 1
MaxRows == 2

(* ------------------------------------------------------------------ *)
(* Strings and formatting                                              *)
(* ------------------------------------------------------------------ *)
Digit(d) == <<CASE d = 0 -> "0" [] d = 1 -> "1" [] d = 2 -> "2" [] d = 3 -> "3"
                [] d = 4 -> "4" [] d = 5 -> "5" [] d = 6 -> "6" [] d = 7 -> "7"
                [] d = 8 -> "8" [] OTHER -> "9">>

RECURSIVE FormatNat(_)
FormatNat(n) == IF n < 10 THEN Digit(n) ELSE FormatNat(n \div 10) \o Digit(n % 10)

\* strconv.FormatInt(i, 10) / fmt's %v of an int
FormatInt(i) == IF i < 0 THEN <<"-">> \o FormatNat(0 - i) ELSE FormatNat(i)

\* strconv.FormatBool
FormatBool(b) == IF b THEN "true" ELSE "false"

\* a float64 is held as the integer number of 1/Unit it is
Unit == 1000

Abs(n) == IF n < 0 THEN 0 - n ELSE n

RECURSIVE StripZeros(_)
StripZeros(str) ==
    IF str # <<>> /\ str[Len(str)] = "0" THEN StripZeros(SubSeq(str, 1, Len(str) - 1))
    ELSE str

\* the three decimals of a number of units
Decimals(n) == Digit((n \div 100) % 10) \o Digit((n \div 10) % 10) \o Digit(n % 10)

\* fmt's %v of a float64 (shortest decimal form)
FormatV(val) ==
    LET frac == StripZeros(Decimals(Abs(val) % Unit))
    IN  (IF val < 0 THEN <<"-">> ELSE <<>>)
        \o FormatNat(Abs(val) \div Unit)
        \o (IF frac = <<>> THEN <<>> ELSE <<".">> \o frac)

RECURSIVE JoinInts(_)
JoinInts(ints) ==
    IF ints = <<>> THEN <<>>
    ELSE IF Len(ints) = 1 THEN FormatInt(ints[1])
    ELSE FormatInt(ints[1]) \o <<" ">> \o JoinInts(Tail(ints))

\* fmt.Sprintf("%v", encoded) for encoded []int: "[1 2 3]"
SprintfV(ints) == <<"[">> \o JoinInts(ints) \o <<"]">>

\* strings.ContainsAny(value, ",")
\* Variant: a field holding a double quote is wrapped as well.
ContainsComma_OrQuote(value) == \E k \in 1..Len(value) : value[k] \in {",", "\""}

ContainsComma(value) == \E k \in 1..Len(value) : value[k] = ","

RECURSIVE CsvFields(_, _)
CsvFields(data, index) ==
    IF index > Len(data) THEN <<>>
    ELSE (IF ContainsComma(data[index])
             THEN <<"\"">> \o data[index] \o <<"\"">>
             ELSE data[index])
         \o (IF index < Len(data) THEN <<",">> ELSE <<>>)
         \o CsvFields(data, index + 1)

transformToCsvFormat(data) == CsvFields(data, 1) \o <<"\r", "\n">>

(* ------------------------------------------------------------------ *)
(* The query result: columns and raw values                            *)
(* ------------------------------------------------------------------ *)
ColId == <<"i", "d">>
ColNm == <<"n", "m">>
\* rows.Columns()
columns == <<ColId, ColNm>>

\* A value MapScan stores in the map: the name of its reflect.Kind and its
\* payload (i: the number, in thousandths for a float64, 1 or 0 for a bool;
\* s: the characters; t: year, month, day, hour, minute, second).
IntVal(n)  == [kind |-> "int64",   i |-> n, s |-> <<>>, t |-> <<>>]
StrVal(st) == [kind |-> "string",  i |-> 0, s |-> st, t |-> <<>>]
UintVal(n) == [kind |-> "uint64",  i |-> n, s |-> <<>>, t |-> <<>>]
FloatVal(n) == [kind |-> "float64", i |-> n, s |-> <<>>, t |-> <<>>]
BoolVal(b) == [kind |-> "bool",    i |-> IF b THEN 1 ELSE 0, s |-> <<>>, t |-> <<>>]
\* a []byte: its Kind is slice
BytesVal(st) == [kind |-> "slice", i |-> 0, s |-> st, t |-> <<>>]
\* a time.Time: its Kind is struct
TimeVal(tm) == [kind |-> "struct", i |-> 0, s |-> <<>>, t |-> tm]
\* nil (SQL NULL): reflect.ValueOf(nil).Kind() is Invalid
NilVal == [kind |-> "invalid", i |-> 0, s |-> <<>>, t |-> <<>>]

\* n in decimal, with zeros in front up to the width
Pad(n, width) ==
    LET digits == FormatNat(n)
    IN  [k \in 1..(width - Len(digits)) |-> "0"] \o digits

\* Time.Format("2006-01-02T15:04:05")
FormatTime(tm) ==
    Pad(tm[1], 4) \o <<"-">> \o Pad(tm[2], 2) \o <<"-">> \o Pad(tm[3], 2) \o <<"T">>
    \o Pad(tm[4], 2) \o <<":">> \o Pad(tm[5], 2) \o <<":">> \o Pad(tm[6], 2)

transformToString(scanType, elem) ==
    CASE scanType \in {"int", "int8", "int16", "int32", "int64"} -> FormatInt(elem.i)
      [] scanType \in {"uint", "uint8", "uint16", "uint32", "uint64", "uintptr"} ->
             FormatNat(elem.i)
      [] scanType \in {"float32", "float64"} -> FormatV(elem.i)
      [] scanType = "bool" -> IF elem.i = 1 THEN <<"t", "r", "u", "e">>
                              ELSE <<"f", "a", "l", "s", "e">>
      [] scanType = "string" -> elem.s
      [] scanType = "time.time" -> FormatTime(elem.t)
      [] scanType \in {"sql.RawBytes", "slice"} -> elem.s
      [] OTHER -> <<"-", "/", "-">>

\* The rows the cursor can yield (allocated maps after MapScan).
RawRow(id, nm) == [key \in {ColId, ColNm} |-> IF key = ColId THEN id ELSE nm]
RawRows == { RawRow(IntVal(1), StrVal(<<"a">>)),
             RawRow(IntVal(12), StrVal(<<"a", ",", "b">>)) }

Results == UNION { [1..n -> RawRows] : n \in 0..MaxRows }

(* ------------------------------------------------------------------ *)
(* De-identification options                                           *)
(* ------------------------------------------------------------------ *)
\* model.AnoOption{}: the zero value (strings are sequences of characters,
\* except Algorithm and Digest, which the code only compares with literals)
NoOptions ==
    [Fore |-> <<>>, Aft |-> <<>>, MaskChar |-> <<>>, KeepLength |-> <<>>,
     Algorithm |-> "", Position |-> 0, Key |-> <<>>, Digest |-> "",
     Lower |-> <<>>, Upper |-> <<>>, Bin |-> <<>>]

\* model.AnoParamOption
OptWith(method, options, level) == [Method |-> method, Options |-> options, Level |-> level]

Opt(method, level) == OptWith(method, NoOptions, level)

EmptyMap == [key \in {} |-> Opt("non", 0)]

\* a policy key that names no column of the result
ColZz == <<"z", "z">>

Policies ==
    { EmptyMap,
      [key \in {ColId, ColNm} |-> IF key = ColId THEN Opt("non", 0) ELSE Opt("drop", 0 - 1)],
      [key \in {ColId, ColNm, ColZz} |-> IF key = ColNm THEN Opt("non", 1) ELSE Opt("drop", 0)],
      [key \in {ColNm} |-> Opt("non", 2)] }

\* The policies under which some column has level > 0
Enabled(options) == \E key \in DOMAIN options : options[key].Level > 0


\* The iteration orders Go's range may take over the keys of a map.
Orders(keys) ==
    { order \in [1..Cardinality(keys) -> keys] :
        \A a, b \in 1..Cardinality(keys) : a # b => order[a] # order[b] }

RECURSIVE CountUntilBreak(_, _, _)
CountUntilBreak(didOptions, order, idx) ==
    IF idx > Len(order) THEN 0
    ELSE IF didOptions[order[idx]].Level > 0 THEN 0
    ELSE 1 + CountUntilBreak(didOptions, order, idx + 1)

\* Variant: count is incremented before the level is tested.
RECURSIVE CountThroughBreak(_, _, _)
CountThroughBreak(didOptions, order, idx) ==
    IF idx > Len(order) THEN 0
    ELSE IF didOptions[order[idx]].Level > 0 THEN 1
    ELSE 1 + CountThroughBreak(didOptions, order, idx + 1)

checkAnoEvaluationCondition_CountFirst(didOptions, order) ==
    LET total == Cardinality(DOMAIN didOptions)
    IN  IF total = 0 THEN FALSE
        ELSE LET count == CountThroughBreak(didOptions, order, 1)
             IN  IF total = count THEN FALSE ELSE TRUE

checkAnoEvaluationCondition(didOptions, order) ==
    LET total == Cardinality(DOMAIN didOptions)
    IN  IF total = 0 THEN FALSE
        ELSE LET count == CountUntilBreak(didOptions, order, 1)
             IN  IF total = count THEN FALSE ELSE TRUE

(* ------------------------------------------------------------------ *)
(* Numbers: a float64 is modelled by the integer number of 1/Unit it   *)
(* holds, exact for decimal literals of at most three decimals         *)
(* ------------------------------------------------------------------ *)

Digits == {"0", "1", "2", "3", "4", "5", "6", "7", "8", "9"}

DigitVal(c) == CHOOSE d \in 0..9 : Digit(d) = <<c>>

AllDigits(str) == \A k \in 1..Len(str) : str[k] \in Digits

RECURSIVE DigitsVal(_)
DigitsVal(str) ==
    IF str = <<>> THEN 0
    ELSE DigitsVal(SubSeq(str, 1, Len(str) - 1)) * 10 + DigitVal(str[Len(str)])

RECURSIVE Pow10(_)
Pow10(n) == IF n = 0 THEN 1 ELSE 10 * Pow10(n - 1)

Unsigned(str) == IF str # <<>> /\ str[1] \in {"+", "-"} THEN Tail(str) ELSE str

Negative(str) == str # <<>> /\ str[1] = "-"

\* strconv.ParseInt(str, 10, 0)
ParseInt(str) ==
    LET body == Unsigned(str)
    IN  IF body # <<>> /\ AllDigits(body)
        THEN [err |-> FALSE,
              val |-> IF Negative(str) THEN 0 - DigitsVal(body) ELSE DigitsVal(body)]
        ELSE [err |-> TRUE, val |-> 0]

\* strconv.ParseFloat(str, 64) on decimal literals without exponent
ParseFloat(str) ==
    LET body == Unsigned(str)
        dots == {k \in 1..Len(body) : body[k] = "."}
        dot  == IF dots = {} THEN Len(body) + 1 ELSE CHOOSE k \in dots : TRUE
        ip   == SubSeq(body, 1, dot - 1)
        fp   == SubSeq(body, dot + 1, Len(body))
    IN  IF /\ Cardinality(dots) <= 1
           /\ AllDigits(ip) /\ AllDigits(fp)
           /\ Len(ip) + Len(fp) > 0 /\ Len(fp) <= 3
        THEN LET abs == DigitsVal(ip) * Unit + DigitsVal(fp) * Pow10(3 - Len(fp))
             IN  [err |-> FALSE, val |-> IF Negative(str) THEN 0 - abs ELSE abs]
        ELSE [err |-> TRUE, val |-> 0]

\* strconv.ParseBool
ParseBool(str) ==
    IF str \in {<<"1">>, <<"t">>, <<"T">>, <<"t","r","u","e">>, <<"T","R","U","E">>,
                <<"T","r","u","e">>}
    THEN [err |-> FALSE, val |-> TRUE]
    ELSE IF str \in {<<"0">>, <<"f">>, <<"F">>, <<"f","a","l","s","e">>,
                     <<"F","A","L","S","E">>, <<"F","a","l","s","e">>}
    THEN [err |-> FALSE, val |-> FALSE]
    ELSE [err |-> TRUE, val |-> FALSE]

(* ------------------------------------------------------------------ *)
(* De-identification functions (package did)                           *)
(* ------------------------------------------------------------------ *)
\* a function that returns the same literal for every input
Constant(text) == [kind |-> "Constant", text |-> <<text>>]

\* what a call leaves in place of a result when it panics
Panic == <<"panic: slice bounds out of range">>

\* hex.EncodeToString(mac.Sum(nil)): a stand-in that names the digest
\* scheme, the key and the bytes written since the last Reset
Digest(scheme, key, data) == <<scheme, "(">> \o key \o <<")", ":">> \o data

BuildEncryptingFunc(options) ==
    CASE options.Algorithm = "hmac" ->
             [kind |-> "Encryptor",
              scheme |-> IF options.Digest = "md5" THEN "hmac-md5" ELSE "hmac-sha256",
              key |-> options.Key, buf |-> <<>>]
      [] options.Algorithm = "hash(sha256)" ->
             [kind |-> "Encryptor", scheme |-> "sha256", key |-> <<>>, buf |-> <<>>]
      [] options.Algorithm = "hash(md5)" ->
             [kind |-> "Encryptor", scheme |-> "md5", key |-> <<>>, buf |-> <<>>]
      [] OTHER -> Constant("unknown Encrypting algorithm")

BuildRoundingFunc(options) ==
    IF options.Algorithm \in {"round", "ceil", "floor"}
    THEN [kind |-> "Rounder", algorithm |-> options.Algorithm, position |-> options.Position]
    ELSE Constant("unknown Rounding algorithm")

\* a panic while the table is built: no function is returned
BuildPanic == [kind |-> "BuildPanic"]

\* boundary, for a binNum that divides the units of upBound - lowBound; with
\* binNum < 0 make([]float64, binNum+1) or boundary[binNum] panics
BuildRangingFunc(options) ==
    LET lowBound == ParseFloat(options.Lower)
        upBound  == ParseFloat(options.Upper)
        binNum   == ParseInt(options.Bin)
    IN  IF lowBound.err THEN Constant("lower parameter error")
        ELSE IF upBound.err THEN Constant("upper parameter error")
        ELSE IF binNum.err THEN Constant("bin parameter error")
        ELSE IF binNum.val < 0 THEN BuildPanic
        ELSE [kind |-> "Ranger",
              boundary |->
                  [i \in 1..(binNum.val + 1) |->
                      IF i <= binNum.val
                      THEN lowBound.val + ((upBound.val - lowBound.val) \div binNum.val) * (i - 1)
                      ELSE upBound.val]]

MaskLength == 256

\* strings.Repeat
Repeat(str, count) == [k \in 1..(Len(str) * count) |-> str[((k - 1) % Len(str)) + 1]]

BuildMaskingFunc(options) ==
    LET fore == ParseInt(options.Fore)
        aft  == ParseInt(options.Aft)
        keepLength == ParseBool(options.KeepLength)
    IN  IF fore.err THEN Constant("fore parameter error")
        ELSE IF aft.err THEN Constant("aft parameter error")
        ELSE IF keepLength.err THEN Constant("keepLength parameter error")
        ELSE [kind |-> "Masker", fore |-> fore.val, aft |-> aft.val,
              maskChar |-> options.MaskChar, keepLength |-> keepLength.val,
              mask |-> Repeat(options.MaskChar, MaskLength)]

passAsIs == [kind |-> "passAsIs"]
dropAll == [kind |-> "dropAll"]

\* str[lo:hi], for 0 <= lo <= hi <= len(str)
Slice(str, lo, hi) == SubSeq(str, lo + 1, hi)

\* math.Round, math.Ceil, math.Floor of num/den, den > 0
Floor(num, den) == num \div den
Ceil(num, den) == 0 - ((0 - num) \div den)
\* Variant: a tie goes toward zero.
Round_HalfDown(num, den) ==
    IF num < 0 THEN 0 - ((2 * (0 - num) + den - 1) \div (2 * den))
    ELSE (2 * num + den - 1) \div (2 * den)

Round(num, den) ==
    IF num < 0 THEN 0 - ((2 * (0 - num) + den) \div (2 * den))
    ELSE (2 * num + den) \div (2 * den)

RoundingOp(algorithm, num, den) ==
    CASE algorithm = "round" -> Round(num, den)
      [] algorithm = "ceil" -> Ceil(num, den)
      [] algorithm = "floor" -> Floor(num, den)

\* the closure of BuildRoundingFunc; a result of zero keeps the sign of a
\* negative input under round and ceil (negative zero prints as -0)
Rounding(f, inString) ==
    LET value == ParseFloat(inString)
        posPower == Pow10(Abs(f.position))
    IN  IF value.err THEN <<"parseFloat error:">> \o inString
        ELSE LET whole == IF f.position > 0
                          THEN RoundingOp(f.algorithm, value.val * posPower, Unit)
                          ELSE RoundingOp(f.algorithm, value.val, Unit * posPower)
                 minus == whole < 0 \/ (whole = 0 /\ value.val < 0)
             IN  (IF minus THEN <<"-">> ELSE <<>>)
                 \o (IF f.position > 0
                     THEN FormatNat(Abs(whole) \div posPower) \o <<".">>
                          \o SubSeq(FormatNat(posPower + (Abs(whole) % posPower)), 2,
                                    f.position + 1)
                     ELSE FormatNat(Abs(whole) * posPower))

\* Variant: a value equal to a boundary stays below it (>= for >).
RECURSIVE RangeWalk_Inclusive(_, _, _, _, _)
RangeWalk_Inclusive(boundary, value, idx, before, last) ==
    IF idx > Len(boundary) THEN last \o <<" ", "~", " ">>
    ELSE IF boundary[idx] >= value
         THEN before \o <<" ", "~", " ">> \o FormatV(boundary[idx])
         ELSE RangeWalk_Inclusive(boundary, value, idx + 1,
                                  FormatV(boundary[idx]), FormatV(boundary[idx]))

RECURSIVE RangeWalk(_, _, _, _, _)
RangeWalk(boundary, value, idx, before, last) ==
    IF idx > Len(boundary) THEN last \o <<" ", "~", " ">>
    ELSE IF boundary[idx] > value
         THEN before \o <<" ", "~", " ">> \o FormatV(boundary[idx])
         ELSE RangeWalk(boundary, value, idx + 1,
                        FormatV(boundary[idx]), FormatV(boundary[idx]))

\* the closure of BuildRangingFunc
Ranging(f, inString) ==
    LET value == ParseFloat(inString)
    IN  IF value.err THEN <<"parseFloat error:">> \o inString
        ELSE RangeWalk(f.boundary, value.val, 1, <<>>, <<>>)

\* Variant: the input must be longer than fore + aft (> for >=).
Masking_Longer(f, inString) ==
    IF inString = <<>> THEN <<>>
    ELSE IF Len(inString) > f.fore + f.aft
    THEN IF f.fore < 0 \/ f.aft < 0 THEN Panic
         ELSE IF f.keepLength
         THEN LET maskLen == Len(inString) - f.fore - f.aft
              IN  IF maskLen > Len(f.mask) THEN Panic
                  ELSE Slice(inString, 0, f.fore) \o Slice(f.mask, 0, maskLen)
                       \o Slice(inString, Len(inString) - f.aft, Len(inString))
         ELSE Slice(inString, 0, f.fore) \o f.maskChar
              \o Slice(inString, Len(inString) - f.aft, Len(inString))
    ELSE <<>>

\* the closure of BuildMaskingFunc
\* Variant: without keepLength the mask still has one character per
\* character it hides.
Masking_PerChar(f, inString) ==
    IF inString = <<>> THEN <<>>
    ELSE IF Len(inString) >= f.fore + f.aft
    THEN IF f.fore < 0 \/ f.aft < 0 THEN Panic
         ELSE LET maskLen == Len(inString) - f.fore - f.aft
              IN  IF maskLen > Len(f.mask) THEN Panic
                  ELSE Slice(inString, 0, f.fore) \o Slice(f.mask, 0, maskLen)
                       \o Slice(inString, Len(inString) - f.aft, Len(inString))
    ELSE <<>>

Masking(f, inString) ==
    IF inString = <<>> THEN <<>>
    ELSE IF Len(inString) >= f.fore + f.aft
    THEN IF f.fore < 0 \/ f.aft < 0 THEN Panic
         ELSE IF f.keepLength
         THEN LET maskLen == Len(inString) - f.fore - f.aft
              IN  IF maskLen > Len(f.mask) THEN Panic
                  ELSE Slice(inString, 0, f.fore) \o Slice(f.mask, 0, maskLen)
                       \o Slice(inString, Len(inString) - f.aft, Len(inString))
         ELSE Slice(inString, 0, f.fore) \o f.maskChar
              \o Slice(inString, Len(inString) - f.aft, Len(inString))
    ELSE <<>>

\* Variant: the table entry of blank_impute is dropAll.
funcList_NoBlankImpute(options) ==
    [i \in 1..Len(columns) |->
        IF columns[i] \in DOMAIN options
        THEN LET option == options[columns[i]]
             IN  CASE option.Method = "encryption" -> BuildEncryptingFunc(option.Options)
                   [] option.Method = "rounding" -> BuildRoundingFunc(option.Options)
                   [] option.Method = "data_range" -> BuildRangingFunc(option.Options)
                   [] option.Method = "pii_reduction" -> BuildMaskingFunc(option.Options)
                   [] option.Method = "non" -> passAsIs
                   [] OTHER -> dropAll
        ELSE passAsIs]

\* funcList of processDeIdentification: one function per column.
funcList(options) ==
    [i \in 1..Len(columns) |->
        IF columns[i] \in DOMAIN options
        THEN LET option == options[columns[i]]
             IN  CASE option.Method = "encryption" -> BuildEncryptingFunc(option.Options)
                   [] option.Method = "rounding" -> BuildRoundingFunc(option.Options)
                   [] option.Method = "data_range" -> BuildRangingFunc(option.Options)
                   [] option.Method = "blank_impute" -> BuildMaskingFunc(option.Options)
                   [] option.Method = "pii_reduction" -> BuildMaskingFunc(option.Options)
                   [] option.Method = "non" -> passAsIs
                   [] OTHER -> dropAll
        ELSE passAsIs]

\* building funcList panics in one of the Build functions
BuildPanics(options) ==
    \E i \in 1..Len(columns) : funcList(options)[i].kind = "BuildPanic"

\* funcList[i](inString): the string returned
ApplyFunc(f, inString) ==
    CASE f.kind = "passAsIs" -> inString
      [] f.kind = "dropAll" -> <<>>
      [] f.kind = "Constant" -> f.text
      [] f.kind = "Encryptor" -> Digest(f.scheme, f.key, f.buf \o inString)
      [] f.kind = "Rounder" -> Rounding(f, inString)
      [] f.kind = "Ranger" -> Ranging(f, inString)
      [] f.kind = "Masker" -> Masking(f, inString)

\* Variant: the bytes written stay in the digest after the call.
CallFunc_NoReset(f, inString) ==
    IF f.kind = "Encryptor" THEN [f EXCEPT !.buf = f.buf \o inString] ELSE f

\* funcList[i](inString): the function after the call; mac.Write appends
\* to what the digest holds, the deferred mac.Reset empties it
CallFunc(f, inString) ==
    IF f.kind = "Encryptor" THEN [f EXCEPT !.buf = <<>>] ELSE f

\* converted[i] = transformToString(Kind(v[key]), v[key])
Convert(v) ==
    [i \in 1..Len(columns) |-> transformToString(v[columns[i]].kind, v[columns[i]])]

\* Variant: every column is computed from the first field of the row.
Deidentify_FirstField(fl, v) ==
    [i \in 1..Len(columns) |-> IF i <= Len(v) THEN ApplyFunc(fl[i], v[1]) ELSE <<>>]

\* output[i] = funcList[i](value)
Deidentify(fl, v) ==
    [i \in 1..Len(columns) |-> IF i <= Len(v) THEN ApplyFunc(fl[i], v[i]) ELSE <<>>]

(* ------------------------------------------------------------------ *)
(* k-anonymity tester (process/util/kAno)                              *)
(* ------------------------------------------------------------------ *)
EmptyDict == [x \in {} |-> 0]

\* a registry that forgets every class but the one it is given
Put_Fresh(dict, key, val) == [x \in {key} |-> val]

Put(dict, key, val) ==
    [x \in DOMAIN dict \cup {key} |-> IF x = key THEN val ELSE dict[x]]

\* anoEncoder.init
encInit == [encDict |-> EmptyDict, freqDict |-> EmptyDict, initialized |-> TRUE]

\* anoEncoder.add: the encoder after the call
encAdd(p, str) ==
    IF str = <<>> THEN p
    ELSE IF str \in DOMAIN p.freqDict
         THEN [p EXCEPT !.freqDict = Put(p.freqDict, str, p.freqDict[str] + 1)]
         ELSE [p EXCEPT !.encDict = Put(p.encDict, str, Cardinality(DOMAIN p.encDict) + 1),
                        !.freqDict = Put(p.freqDict, str, 1)]

\* anoEncoder.add: the value it returns
encAddCode(p, str) ==
    IF str = <<>> THEN 0 ELSE encAdd(p, str).encDict[str]

MinFreqStart == 65535

\* Variant: the comparison is reversed (> for <).
RECURSIVE MinOver_Reversed(_, _, _)
MinOver_Reversed(dict, keys, minFreq) ==
    IF keys = {} THEN minFreq
    ELSE LET key == CHOOSE x \in keys : TRUE
         IN  MinOver_Reversed(dict, keys \ {key},
                              IF dict[key] > minFreq THEN dict[key] ELSE minFreq)

RECURSIVE MinOver(_, _, _)
MinOver(dict, keys, minFreq) ==
    IF keys = {} THEN minFreq
    ELSE LET key == CHOOSE x \in keys : TRUE
         IN  MinOver(dict, keys \ {key},
                     IF dict[key] < minFreq THEN dict[key] ELSE minFreq)

\* anoEncoder.getMinFreq
getMinFreq(p) == MinOver(p.freqDict, DOMAIN p.freqDict, MinFreqStart)

\* AnoTester.New
AnoNew(length, kValue) ==
    [encoderList  |-> [i \in 1..length |-> encInit],
     finalEncoder |-> encInit,
     targetKValue |-> kValue,
     evalFields   |-> [i \in 1..length |-> TRUE]]

RECURSIVE Encoded(_, _, _)
Encoded(t, strList, i) ==
    IF i > Len(strList) THEN <<>>
    ELSE (IF t.evalFields[i] THEN <<encAddCode(t.encoderList[i], strList[i])>> ELSE <<>>)
         \o Encoded(t, strList, i + 1)

\* AnoTester.AddStrings: the tester after the call
AddStrings(t, strList) ==
    [t EXCEPT !.encoderList =
                  [i \in 1..Len(t.encoderList) |->
                      IF i <= Len(strList) /\ t.evalFields[i]
                      THEN encAdd(t.encoderList[i], strList[i])
                      ELSE t.encoderList[i]],
              !.finalEncoder = encAdd(t.finalEncoder, SprintfV(Encoded(t, strList, 1)))]

\* AnoTester.Eval
Eval(t) ==
    LET actValue == getMinFreq(t.finalEncoder)
    IN  IF actValue < t.targetKValue
        THEN [evalResult |-> FALSE, actValue |-> actValue]
        ELSE [evalResult |-> TRUE, actValue |-> actValue]

TargetK == 2

\* AnoTester.SetEvalFields
SetEvalFields(t, fields) ==
    [t EXCEPT !.evalFields =
        [i \in 1..Len(t.evalFields) |-> IF i <= Len(fields) THEN fields[i] ELSE t.evalFields[i]]]

(* ------------------------------------------------------------------ *)
(* k-anonymity tester without field-level encoding (unnamed/part_001)  *)
(* ------------------------------------------------------------------ *)
RECURSIVE QuoteBody(_)
QuoteBody(str) ==
    IF str = <<>> THEN <<>>
    ELSE (IF Head(str) \in {"\"", "\\"} THEN <<"\\", Head(str)>> ELSE <<Head(str)>>)
         \o QuoteBody(Tail(str))

\* Variant: the string is written as it is, without quotes.
Quote_Bare(str) == str

\* strconv.Quote, as %q applies it, on printable ASCII: the string between
\* double quotes, a backslash before each double quote and backslash
Quote(str) == <<"\"">> \o QuoteBody(str) \o <<"\"">>

RECURSIVE JoinQuoted(_)
JoinQuoted(strs) ==
    IF strs = <<>> THEN <<>>
    ELSE IF Len(strs) = 1 THEN Quote(strs[1])
    ELSE Quote(strs[1]) \o <<" ">> \o JoinQuoted(Tail(strs))

\* fmt.Sprintf("%q", filtered) for filtered []string: ["a" "b"]
SprintfQ(strs) == <<"[">> \o JoinQuoted(strs) \o <<"]">>

\* anoEncoder.add: the encoder after the call
encAdd_v2(p, str) ==
    IF str = <<>> \/ p.initialized # TRUE THEN p
    ELSE IF str \in DOMAIN p.freqDict
         THEN [p EXCEPT !.freqDict = Put(p.freqDict, str, p.freqDict[str] + 1)]
         ELSE [p EXCEPT !.encDict = Put(p.encDict, str, Cardinality(DOMAIN p.encDict) + 1),
                        !.freqDict = Put(p.freqDict, str, 1)]

\* anoEncoder.getMinFreq
getMinFreq_v2(p) ==
    IF p.initialized # TRUE THEN 0
    ELSE MinOver(p.freqDict, DOMAIN p.freqDict, MinFreqStart)

\* AnoTester.New
AnoNew_v2(length, kValue) ==
    [finalEncoder |-> encInit,
     targetKValue |-> kValue,
     fieldLen     |-> length,
     evalFields   |-> [i \in 1..length |-> TRUE]]

\* filtered, for a strList of at most fieldLen strings
\* the row with no column left out
Filtered_All(t, strList) ==
    [i \in 1..t.fieldLen |-> IF i <= Len(strList) THEN strList[i] ELSE <<>>]

Filtered(t, strList) ==
    [i \in 1..t.fieldLen |-> IF i <= Len(strList) /\ t.evalFields[i] THEN strList[i] ELSE <<>>]

\* AnoTester.AddStrings: the tester after the call
AddStrings_v2(t, strList) ==
    [t EXCEPT !.finalEncoder = encAdd_v2(t.finalEncoder, SprintfQ(Filtered(t, strList)))]

\* AnoTester.Eval
Eval_v2(t) ==
    LET actValue == getMinFreq_v2(t.finalEncoder)
    IN  IF actValue < t.targetKValue
        THEN [evalResult |-> FALSE, actValue |-> actValue]
        ELSE [evalResult |-> TRUE, actValue |-> actValue]


(* ------------------------------------------------------------------ *)
(* State of one export call                                            *)
(* ------------------------------------------------------------------ *)
VARIABLES
    routineCount,   \* nTransProc = nAnonyProc
    queueSize,      \* capacity of the three data queues
    result,         \* the rows the cursor yields before it ends or fails
    qerr,           \* rows.Err() # nil after the last row
    didOptions,     \* column name -> AnoParamOption
    isEval,         \* checkAnoEvaluationCondition(didOptions)
    iDataQueue, tDataQueue, aDataQueue,     \* buffered contents
    iClosed, tClosed, aClosed,              \* close(...) was called
    rowsClosed,                             \* rows.Close() was called by the coordinator
    quitTrans, quitAnony,                   \* tokens buffered in the completion channels
    completedTrans, completedAnony,
    mainpc,         \* position of Ex_exportData
    ret,            \* what Ex_exportData returned
    apc, aIdx, allocated,                   \* executeExportQuery
    bpc, converted,                         \* transformQueryResult workers
    cpc, output,                            \* processDeIdentification workers
    dpc, row, evaluater, evaluation,        \* writeExportedData
    sink,           \* what res.Write received, in order
    fed,            \* what AddStrings received, in order
    dequeued,       \* number of rows the writer took from aDataQueue
    panicked,       \* a goroutine panicked: the process is gone
    anoSrc,         \* which source of package kAno the tester below runs
    anoTester,      \* an AnoTester used on its own
    anoCount,       \* how many times each row was given to its AddStrings
    anoVerdict,     \* what its Eval returned
    libPolicy,      \* the options a function table was built from
    libFuncs,       \* that table, used on its own
    libLog,         \* the calls made to its functions: column, input, output
    csvData,        \* fields given to transformToCsvFormat used on its own
    csvBuffer,      \* the buffer it returned
    RoutineCount,   \* the package variable of core (SetRoutineCount / GetRoutineCount)
    entryLog,       \* the calls made to the export entry points and their outcome
    sinkFailAt,     \* res.Write returns an error from this write on (0: never)
    dbTracking,     \* dbInfo.Tracking: the query was started with the request context
    cancelAt,       \* rows read when the request context was cancelled (-1: not cancelled)
    encMac,         \* the bytes written to each mac object of an Encryptor
    encPc,          \* where each worker stands in a call of its Encryptor
    encIn,          \* the input of that call
    encLog,         \* the calls completed: worker, input, output
    anoMask,        \* the mask SetEvalFields was called with
    gExDB,          \* the map of external database handles: source uuid -> connection
    dbProc,         \* the callers of GetDatabase and GenerateSource: where each stands
    apis,           \* the package variable apis: which map object it refers to
    apiHeap,        \* the map objects made so far: alias -> api
    Mutex,          \* core.Mutex: 0 when free, else who holds it
    updater,        \* the goroutine of InitializeApi: where UpdateApiList stands
    finder          \* the callers of In_findApi: where each stands

vars == <<routineCount, queueSize, result, qerr, didOptions, isEval,
          iDataQueue, tDataQueue, aDataQueue, iClosed, tClosed, aClosed, rowsClosed,
          quitTrans, quitAnony, completedTrans, completedAnony, mainpc, ret,
          apc, aIdx, allocated, bpc, converted, cpc, output,
          dpc, row, evaluater, evaluation, sink, fed, dequeued, panicked,
          anoSrc, anoTester, anoCount, anoVerdict, libPolicy, libFuncs, libLog,
          csvData, csvBuffer, RoutineCount, entryLog, sinkFailAt, dbTracking, cancelAt,
          encMac, encPc, encIn, encLog, anoMask,
          gExDB, dbProc, apis, apiHeap, Mutex, updater, finder>>

anoVars == <<anoSrc, anoTester, anoCount, anoVerdict>>
libVars == <<libPolicy, libFuncs, libLog>>
csvVars == <<csvData, csvBuffer>>
entryVars == <<RoutineCount, entryLog>>
envVars == <<sinkFailAt, dbTracking, cancelAt>>
encVars == <<encMac, encPc, encIn, encLog>>
handleVars == <<gExDB, dbProc>>
apiVars == <<apis, apiHeap, Mutex, updater, finder>>
auxVars == <<anoMask, handleVars, apiVars>>
sideVars == <<encVars, auxVars>>
cfgVars == <<routineCount, queueSize, result, qerr, didOptions, anoVars, libVars,
             csvVars, entryVars, envVars, sideVars>>
mainVars == <<isEval, completedTrans, completedAnony, mainpc, ret, rowsClosed>>
aVars == <<apc, aIdx, allocated>>
bVars == <<bpc, converted>>
cVars == <<cpc, output>>
dVars == <<dpc, row, evaluater, evaluation, sink, fed, dequeued>>
iVars == <<iDataQueue, iClosed>>
tVars == <<tDataQueue, tClosed>>
aqVars == <<aDataQueue, aClosed>>
quitVars == <<quitTrans, quitAnony>>

Procs == 1..routineCount
NoRow == <<>>
NoVerdict == [evalResult |-> FALSE, actValue |-> -1]
NoTester == [encoderList |-> <<>>, finalEncoder |-> encInit,
             targetKValue |-> 0, evalFields |-> <<>>]
\* model.Evaluation{}
EmptyEvaluation == [ApiName |-> "", Result |-> "", Value |-> 0]
\* the apiName argument
name == "api"
QueryError == "Query error\r\n"

CallInit(rc, qs, res, options) ==
    /\ routineCount = rc
    /\ queueSize = qs
    /\ result = res
    /\ qerr \in BOOLEAN
    /\ didOptions = options
    /\ isEval = FALSE
    /\ iDataQueue = <<>> /\ tDataQueue = <<>> /\ aDataQueue = <<>>
    /\ iClosed = FALSE /\ tClosed = FALSE /\ aClosed = FALSE
    /\ rowsClosed = FALSE
    /\ quitTrans = 0 /\ quitAnony = 0
    /\ completedTrans = 0 /\ completedAnony = 0
    /\ mainpc = "start"
    /\ ret = [evaluation |-> EmptyEvaluation, err |-> "", returned |-> FALSE]
    /\ apc = "next" /\ aIdx = 0 /\ allocated = NoRow
    /\ bpc = [b \in 1..rc |-> "recv"]
    /\ converted = [b \in 1..rc |-> NoRow]
    /\ cpc = [c \in 1..rc |-> "recv"]
    /\ output = [c \in 1..rc |-> NoRow]
    /\ dpc = "idle" /\ row = NoRow /\ evaluater = NoTester
    /\ evaluation = EmptyEvaluation
    /\ sink = <<>> /\ fed = <<>> /\ dequeued = 0
    /\ panicked = FALSE

\* no tester is used outside the export call
AnoIdle ==
    /\ anoSrc = "none" /\ anoTester = NoTester
    /\ anoCount = EmptyDict /\ anoVerdict = NoVerdict

\* no function table is used outside the export call
LibIdle == libPolicy = EmptyMap /\ libFuncs = <<>> /\ libLog = <<>>

\* transformToCsvFormat is not used outside the export call
CsvIdle == csvData = <<>> /\ csvBuffer = <<>>

\* the export call was entered with core.GetRoutineCount()
EntryIdle == RoutineCount = routineCount /\ entryLog = <<>>

\* every write succeeds and the request context is never cancelled
EnvQuiet == sinkFailAt = 0 /\ dbTracking = FALSE /\ cancelAt = 0 - 1

\* no Encryptor is called outside the export call
EncIdle == encMac = <<>> /\ encPc = <<>> /\ encIn = <<>> /\ encLog = <<>>

HandlesIdle == gExDB = <<>> /\ dbProc = <<>>

ApiIdle == apis = 0 /\ apiHeap = <<>> /\ Mutex = 0 /\ updater = <<>> /\ finder = <<>>

CoreIdle == HandlesIdle /\ ApiIdle

AuxIdle == anoMask = <<>> /\ CoreIdle

SideIdle == EncIdle /\ AuxIdle

OthersIdle == CsvIdle /\ EntryIdle /\ EnvQuiet /\ SideIdle

InitWith(rc, qs, res, options) ==
    /\ CallInit(rc, qs, res, options)
    /\ AnoIdle
    /\ LibIdle
    /\ OthersIdle

\* The goroutines of executeExportQuery, transformQueryResult and
\* processDeIdentification have been started; the coordinator is about to
\* evaluate checkAnoEvaluationCondition and start the writer.
Init ==
    \E rc \in 1..MaxRoutines, qs \in 0..MaxQueue, res \in Results, options \in Policies :
        InitWith(rc, qs, res, options)


(* ------------------------------------------------------------------ *)
(* executeExportQuery                                                  *)
(* ------------------------------------------------------------------ *)
\* rows.Next(); MapScan into a fresh map, or leave the loop
A_Next ==
    /\ ~panicked /\ apc = "next"
    /\ IF aIdx < Len(result)
       THEN /\ allocated' = result[aIdx + 1]
            /\ aIdx' = aIdx + 1
            /\ apc' = "send"
       ELSE /\ apc' = "quit"
            /\ UNCHANGED <<aIdx, allocated>>
    /\ UNCHANGED <<cfgVars, mainVars, bVars, cVars, dVars, iVars, tVars, aqVars,
                   quitVars, panicked>>

\* Variant: the send does not wait for room in the queue.
A_Send_Unbounded ==
    /\ ~panicked /\ apc = "send"
    /\ ~iClosed
    /\ iDataQueue' = Append(iDataQueue, allocated)
    /\ allocated' = NoRow
    /\ apc' = "next"
    /\ UNCHANGED <<cfgVars, mainVars, aIdx, bVars, cVars, dVars, iClosed, tVars, aqVars,
                   quitVars, panicked>>

\* iDataQueue <- allocated, into the buffer
A_Send ==
    /\ ~panicked /\ apc = "send"
    /\ ~iClosed /\ Len(iDataQueue) < queueSize
    /\ iDataQueue' = Append(iDataQueue, allocated)
    /\ allocated' = NoRow
    /\ apc' = "next"
    /\ UNCHANGED <<cfgVars, mainVars, aIdx, bVars, cVars, dVars, iClosed, tVars, aqVars,
                   quitVars, panicked>>

\* iDataQueue <- allocated on an unbuffered channel: handed to a waiting receiver
A_Handoff(b) ==
    /\ ~panicked /\ apc = "send"
    /\ ~iClosed /\ queueSize = 0 /\ bpc[b] = "recv"
    /\ converted' = [converted EXCEPT ![b] = Convert(allocated)]
    /\ bpc' = [bpc EXCEPT ![b] = "send"]
    /\ allocated' = NoRow
    /\ apc' = "next"
    /\ UNCHANGED <<cfgVars, mainVars, aIdx, cVars, dVars, iVars, tVars, aqVars,
                   quitVars, panicked>>

(* ------------------------------------------------------------------ *)
(* transformQueryResult                                                *)
(* ------------------------------------------------------------------ *)
\* v, ok = <-iDataQueue with ok = true; converted is computed
B_Recv(b) ==
    /\ ~panicked /\ bpc[b] = "recv"
    /\ Len(iDataQueue) > 0
    /\ converted' = [converted EXCEPT ![b] = Convert(Head(iDataQueue))]
    /\ iDataQueue' = Tail(iDataQueue)
    /\ bpc' = [bpc EXCEPT ![b] = "send"]
    /\ UNCHANGED <<cfgVars, mainVars, aVars, cVars, dVars, iClosed, tVars, aqVars,
                   quitVars, panicked>>

\* v, ok = <-iDataQueue with ok = false
B_Closed(b) ==
    /\ ~panicked /\ bpc[b] = "recv"
    /\ Len(iDataQueue) = 0 /\ iClosed
    /\ bpc' = [bpc EXCEPT ![b] = "quit"]
    /\ UNCHANGED <<cfgVars, mainVars, aVars, converted, cVars, dVars, iVars, tVars, aqVars,
                   quitVars, panicked>>

\* tDataQueue <- converted, into the buffer
B_Send(b) ==
    /\ ~panicked /\ bpc[b] = "send"
    /\ ~tClosed /\ Len(tDataQueue) < queueSize
    /\ tDataQueue' = Append(tDataQueue, converted[b])
    /\ converted' = [converted EXCEPT ![b] = NoRow]
    /\ bpc' = [bpc EXCEPT ![b] = "recv"]
    /\ UNCHANGED <<cfgVars, mainVars, aVars, cVars, dVars, iVars, tClosed, aqVars,
                   quitVars, panicked>>

\* tDataQueue <- converted on an unbuffered channel
B_Handoff(b, c) ==
    /\ ~panicked /\ bpc[b] = "send"
    /\ ~tClosed /\ queueSize = 0 /\ cpc[c] = "recv"
    /\ ~BuildPanics(didOptions)
    /\ output' = [output EXCEPT ![c] = Deidentify(funcList(didOptions), converted[b])]
    /\ cpc' = [cpc EXCEPT ![c] = "send"]
    /\ converted' = [converted EXCEPT ![b] = NoRow]
    /\ bpc' = [bpc EXCEPT ![b] = "recv"]
    /\ UNCHANGED <<cfgVars, mainVars, aVars, dVars, iVars, tVars, aqVars,
                   quitVars, panicked>>

\* tDataQueue <- converted after close(tDataQueue): send on closed channel
B_Panic(b) ==
    /\ ~panicked /\ bpc[b] = "send"
    /\ tClosed
    /\ panicked' = TRUE
    /\ UNCHANGED <<cfgVars, mainVars, aVars, bVars, cVars, dVars, iVars, tVars, aqVars,
                   quitVars>>

\* Variant: the normalizer stays at its completion send and may send again.
B_Quit_Again(b) ==
    /\ ~panicked /\ bpc[b] = "quit"
    /\ quitTrans < routineCount
    /\ quitTrans' = quitTrans + 1
    /\ UNCHANGED <<cfgVars, mainVars, aVars, bVars, cVars, dVars, iVars, tVars, aqVars,
                   quitAnony, panicked>>

\* procQueue <- true (buffered, capacity nTransProc)
B_Quit(b) ==
    /\ ~panicked /\ bpc[b] = "quit"
    /\ quitTrans < routineCount
    /\ quitTrans' = quitTrans + 1
    /\ bpc' = [bpc EXCEPT ![b] = "done"]
    /\ UNCHANGED <<cfgVars, mainVars, aVars, converted, cVars, dVars, iVars, tVars, aqVars,
                   quitAnony, panicked>>

(* ------------------------------------------------------------------ *)
(* processDeIdentification                                             *)
(* ------------------------------------------------------------------ *)
\* the worker dies while it builds funcList, before its first receive
C_BuildPanic(c) ==
    /\ ~panicked /\ cpc[c] = "recv"
    /\ BuildPanics(didOptions)
    /\ panicked' = TRUE
    /\ UNCHANGED <<cfgVars, mainVars, aVars, bVars, cVars, dVars, iVars, tVars, aqVars,
                   quitVars>>

C_Recv(c) ==
    /\ ~panicked /\ cpc[c] = "recv"
    /\ ~BuildPanics(didOptions)
    /\ Len(tDataQueue) > 0
    /\ output' = [output EXCEPT ![c] = Deidentify(funcList(didOptions), Head(tDataQueue))]
    /\ tDataQueue' = Tail(tDataQueue)
    /\ cpc' = [cpc EXCEPT ![c] = "send"]
    /\ UNCHANGED <<cfgVars, mainVars, aVars, bVars, dVars, iVars, tClosed, aqVars,
                   quitVars, panicked>>

C_Closed(c) ==
    /\ ~panicked /\ cpc[c] = "recv"
    /\ ~BuildPanics(didOptions)
    /\ Len(tDataQueue) = 0 /\ tClosed
    /\ cpc' = [cpc EXCEPT ![c] = "quit"]
    /\ UNCHANGED <<cfgVars, mainVars, aVars, bVars, output, dVars, iVars, tVars, aqVars,
                   quitVars, panicked>>

C_Send(c) ==
    /\ ~panicked /\ cpc[c] = "send"
    /\ ~aClosed /\ Len(aDataQueue) < queueSize
    /\ aDataQueue' = Append(aDataQueue, output[c])
    /\ output' = [output EXCEPT ![c] = NoRow]
    /\ cpc' = [cpc EXCEPT ![c] = "recv"]
    /\ UNCHANGED <<cfgVars, mainVars, aVars, bVars, dVars, iVars, tVars, aClosed,
                   quitVars, panicked>>

\* aDataQueue <- output on an unbuffered channel: the writer takes the row
C_Handoff(c) ==
    /\ ~panicked /\ cpc[c] = "send"
    /\ ~aClosed /\ queueSize = 0 /\ dpc = "recv"
    /\ row' = output[c]
    /\ dequeued' = dequeued + 1
    /\ dpc' = IF isEval THEN "eval" ELSE "write"
    /\ output' = [output EXCEPT ![c] = NoRow]
    /\ cpc' = [cpc EXCEPT ![c] = "recv"]
    /\ UNCHANGED <<cfgVars, mainVars, aVars, bVars, evaluater, evaluation, sink, fed,
                   iVars, tVars, aqVars, quitVars, panicked>>

C_Panic(c) ==
    /\ ~panicked /\ cpc[c] = "send"
    /\ aClosed
    /\ panicked' = TRUE
    /\ UNCHANGED <<cfgVars, mainVars, aVars, bVars, cVars, dVars, iVars, tVars, aqVars,
                   quitVars>>

\* Variant: the de-identifier returns without sending its completion.
C_Quit_Silent(c) ==
    /\ ~panicked /\ cpc[c] = "quit"
    /\ cpc' = [cpc EXCEPT ![c] = "done"]
    /\ UNCHANGED <<cfgVars, mainVars, aVars, bVars, output, dVars, iVars, tVars, aqVars,
                   quitVars, panicked>>

\* quitAnony <- true (buffered, capacity nAnonyProc)
C_Quit(c) ==
    /\ ~panicked /\ cpc[c] = "quit"
    /\ quitAnony < routineCount
    /\ quitAnony' = quitAnony + 1
    /\ cpc' = [cpc EXCEPT ![c] = "done"]
    /\ UNCHANGED <<cfgVars, mainVars, aVars, bVars, output, dVars, iVars, tVars, aqVars,
                   quitTrans, panicked>>


(* ------------------------------------------------------------------ *)
(* writeExportedData                                                   *)
(* ------------------------------------------------------------------ *)
HeaderEntry == [tag |-> "header", line |-> transformToCsvFormat(columns)]
RowEntry(r) == [tag |-> "row", line |-> transformToCsvFormat(r)]

\* Variant: the header is also handed to the tester.
D_Header_Fed ==
    /\ ~panicked /\ dpc = "header"
    /\ evaluater' = IF isEval THEN AddStrings(AnoNew(Len(columns), TargetK), columns)
                    ELSE NoTester
    /\ fed' = IF isEval THEN Append(fed, [tag |-> "header", data |-> columns]) ELSE fed
    /\ sink' = Append(sink, HeaderEntry)
    /\ dpc' = "recv"
    /\ UNCHANGED <<cfgVars, mainVars, aVars, bVars, cVars, row, evaluation, dequeued,
                   iVars, tVars, aqVars, quitVars, panicked>>

\* create the tester when isEval, then write the header line
D_Header ==
    /\ ~panicked /\ dpc = "header"
    /\ evaluater' = IF isEval THEN AnoNew(Len(columns), TargetK) ELSE NoTester
    /\ sink' = Append(sink, HeaderEntry)
    /\ dpc' = "recv"
    /\ UNCHANGED <<cfgVars, mainVars, aVars, bVars, cVars, row, evaluation, fed, dequeued,
                   iVars, tVars, aqVars, quitVars, panicked>>

\* Variant: the row goes to the sink without passing through the tester.
D_Recv_SkipEval ==
    /\ ~panicked /\ dpc = "recv"
    /\ Len(aDataQueue) > 0
    /\ row' = Head(aDataQueue)
    /\ aDataQueue' = Tail(aDataQueue)
    /\ dequeued' = dequeued + 1
    /\ dpc' = "write"
    /\ UNCHANGED <<cfgVars, mainVars, aVars, bVars, cVars, evaluater, evaluation, sink, fed,
                   iVars, tVars, aClosed, quitVars, panicked>>

\* Variant: the writer takes the row that was enqueued last.
D_Recv_Last ==
    /\ ~panicked /\ dpc = "recv"
    /\ Len(aDataQueue) > 0
    /\ row' = aDataQueue[Len(aDataQueue)]
    /\ aDataQueue' = SubSeq(aDataQueue, 1, Len(aDataQueue) - 1)
    /\ dequeued' = dequeued + 1
    /\ dpc' = IF isEval THEN "eval" ELSE "write"
    /\ UNCHANGED <<cfgVars, mainVars, aVars, bVars, cVars, evaluater, evaluation, sink, fed,
                   iVars, tVars, aClosed, quitVars, panicked>>

\* row, ok = <-aDataQueue with ok = true
D_Recv ==
    /\ ~panicked /\ dpc = "recv"
    /\ Len(aDataQueue) > 0
    /\ row' = Head(aDataQueue)
    /\ aDataQueue' = Tail(aDataQueue)
    /\ dequeued' = dequeued + 1
    /\ dpc' = IF isEval THEN "eval" ELSE "write"
    /\ UNCHANGED <<cfgVars, mainVars, aVars, bVars, cVars, evaluater, evaluation, sink, fed,
                   iVars, tVars, aClosed, quitVars, panicked>>

\* evaluater.AddStrings(row)
D_AddStrings ==
    /\ ~panicked /\ dpc = "eval"
    /\ evaluater' = AddStrings(evaluater, row)
    /\ fed' = Append(fed, [tag |-> "row", data |-> row])
    /\ dpc' = "write"
    /\ UNCHANGED <<cfgVars, mainVars, aVars, bVars, cVars, row, evaluation, sink, dequeued,
                   iVars, tVars, aqVars, quitVars, panicked>>

\* res.Write(transformToCsvFormat(row)); what Write returns is discarded
D_Write ==
    /\ ~panicked /\ dpc = "write"
    /\ sink' = Append(sink, RowEntry(row))
    /\ row' = NoRow
    /\ dpc' = "recv"
    /\ UNCHANGED <<cfgVars, mainVars, aVars, bVars, cVars, evaluater, evaluation, fed, dequeued,
                   iVars, tVars, aqVars, quitVars, panicked>>

\* Variant: the result of Eval is not copied into the evaluation.
Finalize_KeepNone(isEvalArg, tester) ==
    [ApiName |-> name, Result |-> "none", Value |-> 0]

\* The evaluation the writer builds after its loop
Finalize(isEvalArg, tester) ==
    IF isEvalArg
    THEN [ApiName |-> name,
          Result  |-> FormatBool(Eval(tester).evalResult),
          Value   |-> Eval(tester).actValue]
    ELSE [ApiName |-> name, Result |-> "none", Value |-> 0]

\* row, ok = <-aDataQueue with ok = false; the evaluation is built
D_Closed ==
    /\ ~panicked /\ dpc = "recv"
    /\ Len(aDataQueue) = 0 /\ aClosed
    /\ evaluation' = Finalize(isEval, evaluater)
    /\ dpc' = "publish"
    /\ UNCHANGED <<cfgVars, mainVars, aVars, bVars, cVars, row, evaluater, sink, fed, dequeued,
                   iVars, tVars, aqVars, quitVars, panicked>>

(* ------------------------------------------------------------------ *)
(* Ex_exportData: the coordinator                                      *)
(* ------------------------------------------------------------------ *)
\* isEval := checkAnoEvaluationCondition(didOptions); go writeExportedData(...)
Main_Start ==
    /\ ~panicked /\ mainpc = "start"
    /\ \E order \in Orders(DOMAIN didOptions) :
           isEval' = checkAnoEvaluationCondition(didOptions, order)
    /\ dpc' = "header"
    /\ mainpc' = "select"
    /\ UNCHANGED <<cfgVars, completedTrans, completedAnony, ret, rowsClosed, aVars, bVars,
                   cVars, row, evaluater, evaluation, sink, fed, dequeued,
                   iVars, tVars, aqVars, quitVars, panicked>>

\* case result := <-quitQuery (unbuffered: the producer is at its send);
\* rows.Close(); close(iDataQueue)
Main_QuitQuery ==
    /\ ~panicked /\ mainpc = "select"
    /\ apc = "quit"
    /\ apc' = "done"
    /\ rowsClosed' = TRUE
    /\ iClosed' = TRUE
    /\ panicked' = iClosed
    /\ mainpc' = IF qerr THEN "closeT" ELSE "select"
    /\ UNCHANGED <<cfgVars, isEval, completedTrans, completedAnony, ret, aIdx, allocated,
                   bVars, cVars, dVars, iDataQueue, tVars, aqVars, quitVars>>

\* !result: close(tDataQueue)
Main_CloseT ==
    /\ ~panicked /\ mainpc = "closeT"
    /\ tClosed' = TRUE
    /\ panicked' = tClosed
    /\ mainpc' = "closeA"
    /\ UNCHANGED <<cfgVars, isEval, completedTrans, completedAnony, ret, rowsClosed, aVars,
                   bVars, cVars, dVars, iVars, tDataQueue, aqVars, quitVars>>

\* !result: close(aDataQueue)
Main_CloseA ==
    /\ ~panicked /\ mainpc = "closeA"
    /\ aClosed' = TRUE
    /\ panicked' = aClosed
    /\ mainpc' = "retErr"
    /\ UNCHANGED <<cfgVars, isEval, completedTrans, completedAnony, ret, rowsClosed, aVars,
                   bVars, cVars, dVars, iVars, tVars, aDataQueue, quitVars>>

\* return evaluation, errors.New("Query error\r\n")
Main_ReturnErr ==
    /\ ~panicked /\ mainpc = "retErr"
    /\ ret' = [evaluation |-> EmptyEvaluation, err |-> QueryError, returned |-> TRUE]
    /\ mainpc' = "returned"
    /\ UNCHANGED <<cfgVars, isEval, completedTrans, completedAnony, rowsClosed, aVars,
                   bVars, cVars, dVars, iVars, tVars, aqVars, quitVars, panicked>>

\* Variant: the canonical-row queue is closed on the first completion.
Main_QuitTrans_First ==
    /\ ~panicked /\ mainpc = "select"
    /\ quitTrans > 0
    /\ quitTrans' = quitTrans - 1
    /\ completedTrans' = completedTrans + 1
    /\ tClosed' = TRUE /\ panicked' = FALSE
    /\ UNCHANGED <<cfgVars, isEval, completedAnony, mainpc, ret, rowsClosed, aVars,
                   bVars, cVars, dVars, iVars, tDataQueue, aqVars, quitAnony>>

\* Variant: the canonical-row queue is closed only after more than
\* nTransProc completions (> for >=).
Main_QuitTrans_Strict ==
    /\ ~panicked /\ mainpc = "select"
    /\ quitTrans > 0
    /\ quitTrans' = quitTrans - 1
    /\ completedTrans' = completedTrans + 1
    /\ IF completedTrans + 1 > routineCount
       THEN tClosed' = TRUE /\ panicked' = tClosed
       ELSE UNCHANGED <<tClosed, panicked>>
    /\ UNCHANGED <<cfgVars, isEval, completedAnony, mainpc, ret, rowsClosed, aVars,
                   bVars, cVars, dVars, iVars, tDataQueue, aqVars, quitAnony>>

\* case <-quitTrans
Main_QuitTrans ==
    /\ ~panicked /\ mainpc = "select"
    /\ quitTrans > 0
    /\ quitTrans' = quitTrans - 1
    /\ completedTrans' = completedTrans + 1
    /\ IF completedTrans + 1 >= routineCount
       THEN tClosed' = TRUE /\ panicked' = tClosed
       ELSE UNCHANGED <<tClosed, panicked>>
    /\ UNCHANGED <<cfgVars, isEval, completedAnony, mainpc, ret, rowsClosed, aVars,
                   bVars, cVars, dVars, iVars, tDataQueue, aqVars, quitAnony>>

\* Variant: the redacted-row queue is closed on the first completion.
Main_QuitAnony_Early ==
    /\ ~panicked /\ mainpc = "select"
    /\ quitAnony > 0
    /\ quitAnony' = quitAnony - 1
    /\ completedAnony' = completedAnony + 1
    /\ IF completedAnony + 1 >= 1
       THEN aClosed' = TRUE /\ panicked' = FALSE
       ELSE UNCHANGED <<aClosed, panicked>>
    /\ UNCHANGED <<cfgVars, isEval, completedTrans, mainpc, ret, rowsClosed, aVars,
                   bVars, cVars, dVars, iVars, tVars, aDataQueue, quitTrans>>

\* case <-quitAnony
Main_QuitAnony ==
    /\ ~panicked /\ mainpc = "select"
    /\ quitAnony > 0
    /\ quitAnony' = quitAnony - 1
    /\ completedAnony' = completedAnony + 1
    /\ IF completedAnony + 1 >= routineCount
       THEN aClosed' = TRUE /\ panicked' = aClosed
       ELSE UNCHANGED <<aClosed, panicked>>
    /\ UNCHANGED <<cfgVars, isEval, completedTrans, mainpc, ret, rowsClosed, aVars,
                   bVars, cVars, dVars, iVars, tVars, aDataQueue, quitTrans>>

\* case evaluation := <-quitProce (unbuffered: the writer is at its send);
\* return evaluation, nil
Main_QuitProce ==
    /\ ~panicked /\ mainpc = "select"
    /\ dpc = "publish"
    /\ dpc' = "done"
    /\ ret' = [evaluation |-> evaluation, err |-> "", returned |-> TRUE]
    /\ mainpc' = "returned"
    /\ UNCHANGED <<cfgVars, isEval, completedTrans, completedAnony, rowsClosed, aVars,
                   bVars, cVars, row, evaluater, evaluation, sink, fed, dequeued,
                   iVars, tVars, aqVars, quitVars, panicked>>

(* ------------------------------------------------------------------ *)
(* Specifications                                                      *)
(* ------------------------------------------------------------------ *)
StepA == A_Next \/ A_Send \/ (\E b \in Procs : A_Handoff(b))
StepB(b) == B_Recv(b) \/ B_Closed(b) \/ B_Send(b) \/ B_Panic(b) \/ B_Quit(b)
                \/ (\E c \in Procs : B_Handoff(b, c))
StepC(c) == C_Recv(c) \/ C_Closed(c) \/ C_Send(c) \/ C_Panic(c) \/ C_Quit(c)
                \/ C_Handoff(c)
StepD == D_Header \/ D_Recv \/ D_AddStrings \/ D_Write \/ D_Closed
StepMain == Main_Start \/ Main_QuitQuery \/ Main_CloseT \/ Main_CloseA \/ Main_ReturnErr
                \/ Main_QuitTrans \/ Main_QuitAnony \/ Main_QuitProce

Next ==
    \/ StepA
    \/ \E b \in Procs : StepB(b)
    \/ \E c \in Procs : StepC(c)
    \/ StepD
    \/ StepMain

Spec == Init /\ [][Next]_vars

\* The Go scheduler runs every goroutine that can take a step.
Fairness ==
    /\ WF_vars(StepA)
    /\ \A b \in 1..MaxRoutines : WF_vars(b \in Procs /\ StepB(b))
    /\ \A c \in 1..MaxRoutines : WF_vars(c \in Procs /\ StepC(c))
    /\ WF_vars(StepD)
    /\ WF_vars(StepMain)


(* ------------------------------------------------------------------ *)
(* Results long enough to fill the whole pipeline                      *)
(* ------------------------------------------------------------------ *)
\* rows in flight when every queue is full and every goroutine holds a row
PipelineCapacity(rc, qs) == 3 * qs + 2 * rc + 2

LongResult(rc, qs) ==
    [k \in 1..(PipelineCapacity(rc, qs) + 1) |-> RawRow(IntVal(1), StrVal(<<"a">>))]

InitLong ==
    \E rc \in 1..MaxRoutines, qs \in 0..MaxQueue :
        InitWith(rc, qs, LongResult(rc, qs), [key \in {ColNm} |-> Opt("non", 2)])

SpecLong == InitLong /\ [][Next]_vars

\* Scheduling does not depend on the contents of the rows: the fair
\* specification runs results of every length over one row value.
UniformResults == { [k \in 1..n |-> RawRow(IntVal(1), StrVal(<<"a">>))] : n \in 0..MaxRows }

InitFair ==
    \E rc \in 1..MaxRoutines, qs \in 0..MaxQueue, res \in UniformResults,
       options \in {EmptyMap, [key \in {ColNm} |-> Opt("non", 2)]} :
        InitWith(rc, qs, res, options)

FairSpec == InitFair /\ [][Next]_vars /\ Fairness


(* ------------------------------------------------------------------ *)
(* Observations used by the properties                                 *)
(* ------------------------------------------------------------------ *)
AllBDone == \A b \in Procs : bpc[b] = "done"
AllCDone == \A c \in Procs : cpc[c] = "done"
AllWorkersDone == apc = "done" /\ AllBDone /\ AllCDone /\ dpc = "done"

ReturnedOk == ret.returned /\ ret.err = ""
ReturnedErr == ret.returned /\ ret.err = QueryError

\* the data rows of the sink (everything after the first entry)
SinkRows == IF sink = <<>> THEN <<>> ELSE Tail(sink)

\* the redaction of the k-th row of the query result, as written
Redacted(k) == Deidentify(funcList(didOptions), Convert(result[k]))
RedactedLines == { transformToCsvFormat(Redacted(k)) : k \in 1..Len(result) }

WrittenCount(line) == Cardinality({k \in 1..Len(SinkRows) : SinkRows[k].line = line})
ProducedCount(line) ==
    Cardinality({k \in 1..Len(result) : transformToCsvFormat(Redacted(k)) = line})

(* ------------------------------------------------------------------ *)
(* C1                                                                  *)
(* ------------------------------------------------------------------ *)
\* C1: when the export call returns the Evaluation of a query of r rows, the
\* sink holds the header followed by exactly r data rows, the written rows
\* are as a multiset the redactions of the r query rows, and nothing is left
\* in the three queues or in the hands of a worker.
C1_NoRowLostOrDuplicated ==
    ReturnedOk =>
        /\ Len(sink) = 1 + Len(result)
        /\ sink[1] = HeaderEntry
        /\ \A k \in 1..Len(SinkRows) :
               SinkRows[k].tag = "row" /\ SinkRows[k].line \in RedactedLines
        /\ \A line \in RedactedLines : WrittenCount(line) = ProducedCount(line)
        /\ iDataQueue = <<>> /\ tDataQueue = <<>> /\ aDataQueue = <<>>
        /\ \A b \in Procs : converted[b] = NoRow /\ output[b] = NoRow

\* a successful export of a result with a repeated row and a different row
C1_Witness ==
    /\ ReturnedOk
    /\ routineCount = 2
    /\ Len(result) >= 2
    /\ \E j, k \in 1..Len(result) : j # k /\ result[j] = result[k]

(* ------------------------------------------------------------------ *)
(* C2                                                                  *)
(* ------------------------------------------------------------------ *)
\* C2: under fair scheduling, once the producer has sent its successful
\* completion, every normalizer and every de-identifier publishes its
\* completion, the writer publishes its Evaluation, and the coordinator
\* returns that Evaluation; the writer publishes once and never again.
C2_OrderlyShutdown ==
    /\ (apc = "done" /\ ~qerr) ~>
           (AllBDone /\ AllCDone /\ dpc = "done" /\ ReturnedOk
            /\ ret.evaluation = evaluation
            /\ completedTrans = routineCount /\ completedAnony = routineCount)
    /\ [][dpc = "done" => (dpc' = "done" /\ ret' = ret /\ evaluation' = evaluation)]_vars

\* the export has returned the Evaluation with all 2 + 2 workers finished
C2_Witness ==
    /\ ReturnedOk /\ routineCount = 2 /\ AllBDone /\ AllCDone /\ dpc = "done"
    /\ Len(result) >= 1


(* ------------------------------------------------------------------ *)
(* C3                                                                  *)
(* ------------------------------------------------------------------ *)
\* C3: when the producer fails after r rows, the export call returns the
\* query error with the empty Evaluation, and at that moment the sink holds
\* the header and at most r data rows, each the redaction of a produced row.
C3_QueryFailureSurface ==
    (qerr /\ ret.returned) =>
        /\ ret.err = QueryError
        /\ ret.evaluation = EmptyEvaluation
        /\ Len(sink) >= 1
        /\ sink[1] = HeaderEntry
        /\ Len(SinkRows) <= Len(result)
        /\ \A k \in 1..Len(SinkRows) :
               SinkRows[k].tag = "row" /\ SinkRows[k].line \in RedactedLines
        /\ \A line \in RedactedLines : WrittenCount(line) <= ProducedCount(line)

(* ------------------------------------------------------------------ *)
(* C4                                                                  *)
(* ------------------------------------------------------------------ *)
\* C4: after the coordinator has returned the query error, under fair
\* scheduling every worker eventually terminates (a crash of the whole
\* process counts as termination here).
C4_TeardownTerminates ==
    ReturnedErr ~> (panicked \/ AllWorkersDone)

(* ------------------------------------------------------------------ *)
(* C5                                                                  *)
(* ------------------------------------------------------------------ *)
\* C5: when the export call has returned, with the Evaluation or with the
\* query error, no worker of the request is still running and the sink
\* receives nothing more.
C5_NothingOutlivesReturn ==
    /\ [](ret.returned => AllWorkersDone)
    /\ [][ret.returned => sink' = sink]_vars

(* ------------------------------------------------------------------ *)
(* C6                                                                  *)
(* ------------------------------------------------------------------ *)
\* C6: the header line is the first thing written and is written once: the
\* sink is empty until the writer has passed its header step, from then on
\* its first entry is the header and every later entry is a data row; the
\* evaluator is only ever fed data rows.
C6_HeaderOnceFirst ==
    /\ dpc \in {"idle", "header"} => sink = <<>>
    /\ dpc \notin {"idle", "header"} => (Len(sink) >= 1 /\ sink[1] = HeaderEntry)
    /\ \A k \in 2..Len(sink) : sink[k].tag = "row"
    /\ \A k \in 1..Len(fed) : fed[k].tag = "row"

\* header and two data rows written, both rows fed to the evaluator
C6_Witness == Len(sink) = 3 /\ Len(fed) = 2

(* ------------------------------------------------------------------ *)
(* C7                                                                  *)
(* ------------------------------------------------------------------ *)
RECURSIVE SumOver(_, _)
SumOver(dict, keys) ==
    IF keys = {} THEN 0
    ELSE LET key == CHOOSE x \in keys : TRUE
         IN  dict[key] + SumOver(dict, keys \ {key})

\* rows counted by the registry of the tester
Registered == SumOver(evaluater.finalEncoder.freqDict, DOMAIN evaluater.finalEncoder.freqDict)

\* C7: with evaluation enabled, the rows fed to the evaluator are the rows
\* the writer dequeued, each fed once and before it is written: the k-th row
\* written is the k-th row fed, the evaluator is ahead of the sink by at most
\* one row and behind the dequeue count by at most one, the registry counts
\* every row fed, and when the writer publishes the three counts are equal.
C7_EvaluatorInStep ==
    (Enabled(didOptions) /\ mainpc # "start") =>
        /\ Len(fed) - Len(SinkRows) \in {0, 1}
        /\ dequeued - Len(fed) \in {0, 1}
        /\ \A k \in 1..Len(SinkRows) :
               SinkRows[k].line = transformToCsvFormat(fed[k].data)
        /\ Registered = Len(fed)
        /\ dpc \in {"publish", "done"} =>
               (Len(SinkRows) = dequeued /\ dequeued = Len(fed))

\* the writer has published after feeding and writing two rows
C7_Witness ==
    /\ Enabled(didOptions) /\ dpc = "done"
    /\ Len(fed) = 2 /\ Len(SinkRows) = 2 /\ dequeued = 2

(* ------------------------------------------------------------------ *)
(* C8                                                                  *)
(* ------------------------------------------------------------------ *)
\* rows the producer has scanned and the writer has not written
InFlight == aIdx - Len(SinkRows)

\* C8: no queue ever holds more than queueSize rows, so the rows scanned by
\* the producer and not yet written are never more than 3Q + 2N + 2,
\* whatever the length of the query result and however long the sink stalls.
C8_Backpressure ==
    /\ Len(iDataQueue) <= queueSize
    /\ Len(tDataQueue) <= queueSize
    /\ Len(aDataQueue) <= queueSize
    /\ InFlight <= 3 * queueSize + 2 * routineCount + 2

\* the pipeline is full: the producer is blocked with a row in hand on a
\* full raw-tuple queue, the bound is met and rows remain in the cursor
C8_Witness ==
    /\ queueSize = 1 /\ routineCount = 2
    /\ apc = "send" /\ Len(iDataQueue) = queueSize
    /\ InFlight = 3 * queueSize + 2 * routineCount + 2
    /\ aIdx < Len(result)
    /\ ~iClosed

(* ------------------------------------------------------------------ *)
(* C9                                                                  *)
(* ------------------------------------------------------------------ *)
\* C9: whatever order the policy map is iterated in, evaluation is enabled
\* exactly when some entry has level > 0 (so never for the empty map or a
\* map whose levels are all <= 0).
C9_EnabledIffSomeLevelPositive ==
    mainpc # "start" => (isEval <=> Enabled(didOptions))

\* enabled by a map of three entries of which only one has level > 0
C9_Witness ==
    /\ mainpc # "start" /\ isEval
    /\ Cardinality(DOMAIN didOptions) = 3
    /\ \E key \in DOMAIN didOptions : didOptions[key].Level = 0

(* ------------------------------------------------------------------ *)
(* C10                                                                 *)
(* ------------------------------------------------------------------ *)
\* C10: the Evaluation the writer publishes names the request; with
\* evaluation disabled it is ("none", 0) whatever was streamed, with
\* evaluation enabled its result is "true" or "false"; the coordinator
\* returns it unchanged.
C10_EvaluationContents ==
    dpc \in {"publish", "done"} =>
        /\ evaluation.ApiName = name
        /\ Enabled(didOptions) => evaluation.Result \in {"true", "false"}
        /\ ~Enabled(didOptions) => (evaluation.Result = "none" /\ evaluation.Value = 0)
        /\ ReturnedOk => ret.evaluation = evaluation

\* a disabled evaluation published after two rows were streamed
C10_Witness ==
    /\ ReturnedOk /\ ~Enabled(didOptions) /\ DOMAIN didOptions # {}
    /\ Len(SinkRows) = 2


(* ------------------------------------------------------------------ *)
(* C14                                                                 *)
(* ------------------------------------------------------------------ *)
\* sizes of the classes of equal redacted rows of the query result
ClassSizes ==
    { Cardinality({j \in 1..Len(result) : Redacted(j) = Redacted(k)}) : k \in 1..Len(result) }

SmallestClass ==
    IF ClassSizes = {} THEN MinFreqStart
    ELSE CHOOSE m \in ClassSizes : \A n \in ClassSizes : m <= n

\* C14: the Evaluation a successful export returns is determined by the
\* multiset of query rows and the policy alone: it is the one computed from
\* the class sizes of the redacted rows, whatever the worker count and the
\* order in which the rows reached the writer.
C14_EvaluationOrderFree ==
    ReturnedOk =>
        ret.evaluation =
            IF Enabled(didOptions)
            THEN [ApiName |-> name,
                  Result  |-> FormatBool(SmallestClass >= TargetK),
                  Value   |-> SmallestClass]
            ELSE [ApiName |-> name, Result |-> "none", Value |-> 0]

\* two different rows reached the evaluator in the reverse of cursor order
C14_Witness ==
    /\ ReturnedOk /\ isEval /\ Len(fed) = 2
    /\ Redacted(1) # Redacted(2)
    /\ fed[1].data = Redacted(2) /\ fed[2].data = Redacted(1)

(* ------------------------------------------------------------------ *)
(* C16                                                                 *)
(* ------------------------------------------------------------------ *)
IsCanonical(r) ==
    /\ Len(r) = Len(columns)
    /\ \E k \in 1..aIdx : r = Convert(result[k])

IsRedacted(r) ==
    /\ Len(r) = Len(columns)
    /\ \E k \in 1..aIdx :
           \A i \in 1..Len(columns) :
               r[i] = ApplyFunc(funcList(didOptions)[i], Convert(result[k])[i])

\* rows between the cursor and the sink
Held ==
    (IF apc = "send" THEN 1 ELSE 0) + Len(iDataQueue)
    + Cardinality({b \in Procs : bpc[b] = "send"}) + Len(tDataQueue)
    + Cardinality({c \in Procs : cpc[c] = "send"}) + Len(aDataQueue)

\* C16: a normalizer turns each raw tuple it takes into exactly one
\* canonical row of column-count length, a de-identifier turns each
\* canonical row it takes into exactly one redacted row of the same length
\* whose i-th field is the i-th table function applied to the i-th field of
\* that canonical row; no row appears or disappears on the way.
C16_OneRowInOneRowOut ==
    /\ \A b \in Procs : bpc[b] = "send" => IsCanonical(converted[b])
    /\ \A k \in 1..Len(tDataQueue) : IsCanonical(tDataQueue[k])
    /\ \A c \in Procs : cpc[c] = "send" => IsRedacted(output[c])
    /\ \A k \in 1..Len(aDataQueue) : IsRedacted(aDataQueue[k])
    /\ dpc \in {"eval", "write"} => IsRedacted(row)
    /\ aIdx = Held + dequeued

\* both de-identifiers hold a redacted row, of two different query rows, of
\* which the first column was dropped and the second kept
C16_Witness ==
    /\ routineCount = 2
    /\ cpc[1] = "send" /\ cpc[2] = "send" /\ output[1] # output[2]
    /\ output[1][1] = <<>> /\ output[1][2] # <<>>


(* ------------------------------------------------------------------ *)
(* A tester on its own: New, SetEvalFields, AddStrings ..., Eval       *)
(* ------------------------------------------------------------------ *)
MaxAdds == 3
MaxK == 3

AnoSources == {"kAnoTester.go", "part_001"}

StrA == <<"a">>
StrB == <<"b">>
StrAB == <<"a", "b">>
StrA_B == <<"a", " ", "b">>
StrB_A == <<"b", " ", "a">>
StrAqqB == <<"a", "\"", " ", "\"", "b">>
StrBqq == <<"b", "\"", " ", "\"">>

\* redacted rows of column-count length
AnoRows ==
    { <<StrA, StrB>>, <<StrAB, <<>>>>, <<<<>>, StrAB>>,
      <<StrA_B, StrA>>, <<StrA, StrB_A>>,
      <<StrAqqB, <<>>>>, <<StrA, StrBqq>> }

New(src, length, kValue) ==
    IF src = "part_001" THEN AnoNew_v2(length, kValue) ELSE AnoNew(length, kValue)

AddStringsOf(src, t, strList) ==
    IF src = "part_001" THEN AddStrings_v2(t, strList) ELSE AddStrings(t, strList)

EvalOf(src, t) ==
    IF src = "part_001" THEN Eval_v2(t) ELSE Eval(t)

\* counters after n calls of add with the same string, from the counters
\* before (d0) and after the first call (d1): a call adds 1 to the counter
\* of its string, which the first call created if it was new
Repeated(d0, d1, n) ==
    [key \in DOMAIN d1 |->
        IF key \in DOMAIN d0 THEN d0[key] + n * (d1[key] - d0[key]) ELSE n * d1[key]]

\* n calls of AddStrings with the same row, one after the other
AddStringsTimes(src, t, strList, n) ==
    IF n = 0 THEN t
    ELSE LET t1 == AddStringsOf(src, t, strList)
             final == [t1.finalEncoder EXCEPT
                          !.freqDict = Repeated(t.finalEncoder.freqDict,
                                                t1.finalEncoder.freqDict, n)]
         IN  IF src = "part_001"
             THEN [t1 EXCEPT !.finalEncoder = final]
             ELSE [t1 EXCEPT !.finalEncoder = final,
                             !.encoderList =
                                 [i \in 1..Len(t1.encoderList) |->
                                     [t1.encoderList[i] EXCEPT
                                         !.freqDict = Repeated(t.encoderList[i].freqDict,
                                                               t1.encoderList[i].freqDict, n)]]]

\* a large class: the row already added this many times
Preload == MinFreqStart - 1
PreloadRow == <<StrA, StrB>>

\* the masks SetEvalFields is called with: shorter than the column count,
\* of its length, and longer
Masks == UNION { [1..n -> BOOLEAN] : n \in (Len(columns) - 1)..(Len(columns) + 1) }

InitAno ==
    /\ CallInit(1, 0, <<>>, EmptyMap)
    /\ qerr = FALSE
    /\ \E src \in AnoSources, k \in 1..MaxK, fields \in Masks, n \in {0, Preload} :
          /\ anoSrc = src
          /\ anoMask = fields
          /\ anoTester = AddStringsTimes(src, SetEvalFields(New(src, Len(columns), k), fields),
                                         PreloadRow, n)
          /\ anoCount = [r \in AnoRows |-> IF r = PreloadRow THEN n ELSE 0]
          /\ anoVerdict = NoVerdict
    /\ LibIdle
    /\ CsvIdle /\ EntryIdle /\ EnvQuiet /\ EncIdle /\ CoreIdle

callVars == <<routineCount, queueSize, result, qerr, didOptions, mainVars, aVars, bVars,
              cVars, dVars, iVars, tVars, aqVars, quitVars, panicked,
              csvVars, entryVars, envVars, sideVars>>

Preloaded == IF anoCount[PreloadRow] >= Preload THEN Preload ELSE 0

Ano_AddStrings(r) ==
    /\ anoSrc \in AnoSources /\ anoVerdict = NoVerdict
    /\ SumOver(anoCount, AnoRows) - Preloaded < MaxAdds
    /\ anoTester' = AddStringsOf(anoSrc, anoTester, r)
    /\ anoCount' = [anoCount EXCEPT ![r] = @ + 1]
    /\ UNCHANGED <<callVars, libVars, anoSrc, anoVerdict>>

Ano_Eval ==
    /\ anoSrc \in AnoSources /\ anoVerdict = NoVerdict
    /\ anoVerdict' = EvalOf(anoSrc, anoTester)
    /\ UNCHANGED <<callVars, libVars, anoSrc, anoTester, anoCount>>

NextAno == (\E r \in AnoRows : Ano_AddStrings(r)) \/ Ano_Eval

SpecAno == InitAno /\ [][NextAno]_vars

\* the strings of a row at the evaluated positions
Proj(r) == [i \in 1..Len(r) |-> IF anoTester.evalFields[i] THEN r[i] ELSE <<>>]

FedRows == {r \in AnoRows : anoCount[r] > 0}

\* number of rows fed that agree with r at every evaluated position
ClassSizeOf(r) == SumOver(anoCount, {q \in AnoRows : Proj(q) = Proj(r)})

SmallestFedClass ==
    CHOOSE m \in {ClassSizeOf(r) : r \in FedRows} : \A r \in FedRows : m <= ClassSizeOf(r)

\* the registry key AddStrings uses for r
KeyOf(r) ==
    IF anoSrc = "part_001" THEN SprintfQ(Filtered(anoTester, r))
    ELSE SprintfV(Encoded(anoTester, r, 1))

(* ------------------------------------------------------------------ *)
(* C11                                                                 *)
(* ------------------------------------------------------------------ *)
\* C11: after a non-empty stream, Eval reports as value the size of the
\* smallest class of the rows fed, whatever the class sizes are, and as
\* result whether that size is at least the target k.
C11_MinFreqReported ==
    (anoVerdict # NoVerdict /\ FedRows # {}) =>
        /\ anoVerdict.actValue = SmallestFedClass
        /\ anoVerdict.evalResult = (SmallestFedClass >= anoTester.targetKValue)

(* ------------------------------------------------------------------ *)
(* C12                                                                 *)
(* ------------------------------------------------------------------ *)
\* C12: Eval after an empty stream reports value 0 and, the target being
\* at least 1, result false.
C12_EmptyStreamZero ==
    (anoVerdict # NoVerdict /\ FedRows = {}) =>
        /\ anoVerdict.actValue = 0
        /\ anoVerdict.evalResult = FALSE

(* ------------------------------------------------------------------ *)
(* C13                                                                 *)
(* ------------------------------------------------------------------ *)
\* C13: two rows fed share a registry key exactly when they hold equal
\* strings at every evaluated position, and the counter of the key of a row
\* is the number of rows fed that agree with it at those positions.
C13_FingerprintInjective ==
    anoSrc \in AnoSources =>
        /\ \A r \in FedRows :
               /\ KeyOf(r) \in DOMAIN anoTester.finalEncoder.freqDict
               /\ anoTester.finalEncoder.freqDict[KeyOf(r)] = ClassSizeOf(r)
        /\ \A r1, r2 \in FedRows : (KeyOf(r1) = KeyOf(r2)) <=> (Proj(r1) = Proj(r2))
        /\ Cardinality(DOMAIN anoTester.finalEncoder.freqDict)
               = Cardinality({Proj(r) : r \in FedRows})

\* rows whose strings run together without quoting were fed, every
\* position evaluated, and rows that differ only at a position left out
C13_Witness ==
    /\ anoSrc = "part_001"
    /\ anoCount[<<StrA_B, StrA>>] = 1 /\ anoCount[<<StrA, StrB_A>>] = 1
    /\ anoCount[<<StrA, StrB>>] = 1
    /\ anoTester.evalFields = <<TRUE, TRUE>>


(* ------------------------------------------------------------------ *)
(* A function table on its own: built as processDeIdentification       *)
(* builds it, then called                                              *)
(* ------------------------------------------------------------------ *)
MaxCalls == 2

Encrypt(algorithm, digest, key) ==
    [NoOptions EXCEPT !.Algorithm = algorithm, !.Digest = digest, !.Key = key]

Rounder(algorithm, position) ==
    [NoOptions EXCEPT !.Algorithm = algorithm, !.Position = position]

Ranger(lower, upper, bin) ==
    [NoOptions EXCEPT !.Lower = lower, !.Upper = upper, !.Bin = bin]

Masker(fore, aft, maskChar, keepLength) ==
    [NoOptions EXCEPT !.Fore = fore, !.Aft = aft, !.MaskChar = maskChar,
                      !.KeepLength = keepLength]

StrTrue == <<"t", "r", "u", "e">>
StrFalse == <<"f", "a", "l", "s", "e">>

\* options of one column
LibOpts ==
    { Opt("non", 0), Opt("drop", 0), Opt("", 0),
      OptWith("encryption", Encrypt("hmac", "sha256", <<"k">>), 0),
      OptWith("encryption", Encrypt("hmac", "md5", <<"k">>), 0),
      OptWith("encryption", Encrypt("hmac", "", <<"k", "2">>), 0),
      OptWith("encryption", Encrypt("hash(sha256)", "", <<>>), 0),
      OptWith("encryption", Encrypt("hash(md5)", "", <<>>), 0),
      OptWith("encryption", Encrypt("rot13", "", <<>>), 0),
      OptWith("rounding", Rounder("round", 0), 0),
      OptWith("rounding", Rounder("ceil", 0 - 1), 0),
      OptWith("rounding", Rounder("floor", 1), 0),
      OptWith("rounding", Rounder("nearest", 0), 0),
      OptWith("data_range", Ranger(<<"0">>, <<"1", "0">>, <<"5">>), 0),
      OptWith("data_range", Ranger(<<"0">>, <<"1", "0">>, <<"4">>), 0),
      OptWith("data_range", Ranger(<<"1", "0">>, <<"0">>, <<"2">>), 0),
      OptWith("data_range", Ranger(<<"5">>, <<"5">>, <<"1">>), 0),
      OptWith("data_range", Ranger(<<"x">>, <<"1", "0">>, <<"5">>), 0),
      OptWith("data_range", Ranger(<<"0">>, <<>>, <<"5">>), 0),
      OptWith("data_range", Ranger(<<"0">>, <<"1", "0">>, <<"2", ".", "5">>), 0),
      OptWith("blank_impute", Masker(<<"1">>, <<"1">>, <<"*">>, StrTrue), 0),
      OptWith("pii_reduction", Masker(<<"1">>, <<"1">>, <<"*">>, StrFalse), 0),
      OptWith("pii_reduction", Masker(<<"1">>, <<"1">>, <<"*", "*">>, StrTrue), 0),
      OptWith("blank_impute", Masker(<<"0">>, <<"0">>, <<"*">>, StrFalse), 0),
      OptWith("blank_impute", Masker(<<"2">>, <<"1">>, <<"#">>, <<"1">>), 0),
      OptWith("blank_impute", Masker(<<"o">>, <<"1">>, <<"*">>, StrTrue), 0),
      OptWith("blank_impute", Masker(<<"1">>, <<>>, <<"*">>, StrTrue), 0),
      OptWith("pii_reduction", Masker(<<"1">>, <<"1">>, <<"*">>, <<"y", "e", "s">>), 0) }

\* options of the second column
LibOpts2 == { Opt("non", 1), OptWith("encryption", Encrypt("hmac", "sha256", <<"k">>), 0) }

LibPolicies ==
    { [key \in keys |-> IF key = ColId THEN a ELSE b] :
        keys \in SUBSET {ColId, ColNm}, a \in LibOpts, b \in LibOpts2 }

\* a field longer than the mask prepared by BuildMaskingFunc
LongField == Repeat(<<"x">>, MaskLength + 3)

\* canonical values given to the functions
LibInputs ==
    { <<>>, <<"a", "b">>, <<"a", "b", "c", "d", "e", "f">>, LongField,
      <<"3">>, <<"4">>, <<"1", "0">>, <<"1", "2">>, <<"-", "2", ".", "5">>, <<"0", ".", "4">>,
      <<"-", "0", ".", "4">> }

InitLib ==
    /\ CallInit(1, 0, <<>>, EmptyMap)
    /\ qerr = FALSE
    /\ AnoIdle
    /\ libPolicy \in LibPolicies
    /\ libFuncs = funcList(libPolicy)
    /\ libLog = <<>>
    /\ OthersIdle

LibPanicked == libLog # <<>> /\ libLog[Len(libLog)].out = Panic

\* output[i] = funcList[i](value), for one i
Lib_Call(i, value) ==
    /\ libFuncs # <<>> /\ ~LibPanicked
    /\ Len(libLog) < MaxCalls
    /\ libLog' = Append(libLog, [col |-> i, in |-> value, out |-> ApplyFunc(libFuncs[i], value)])
    /\ libFuncs' = [libFuncs EXCEPT ![i] = CallFunc(libFuncs[i], value)]
    /\ UNCHANGED <<callVars, anoVars, libPolicy>>

NextLib == \E i \in 1..Len(columns), value \in LibInputs : Lib_Call(i, value)

SpecLib == InitLib /\ [][NextLib]_vars

\* the calls made so far to a column whose policy entry has the method
CallsOf(methods) ==
    { k \in 1..Len(libLog) :
        /\ columns[libLog[k].col] \in DOMAIN libPolicy
        /\ libPolicy[columns[libLog[k].col]].Method \in methods }

OptionsOf(k) == libPolicy[columns[libLog[k].col]].Options

(* ------------------------------------------------------------------ *)
(* C15                                                                 *)
(* ------------------------------------------------------------------ *)
KnownMethods ==
    {"encryption", "rounding", "data_range", "blank_impute", "pii_reduction", "non"}

\* C15: the table has one entry per column, chosen by that column's policy
\* entry alone: identity (output equal to the input) without an entry or
\* with method non, the constant empty string for an unknown method, the
\* Encryptor, Rounder, Ranger or Masker built from the entry's options for
\* encryption, rounding, data_range, and blank_impute or pii_reduction.
C15_TablePerColumn ==
    libFuncs # <<>> =>
        /\ Len(libFuncs) = Len(columns)
        /\ \A i \in 1..Len(columns) :
               LET key == columns[i]
                   method == libPolicy[key].Method
                   options == libPolicy[key].Options
               IN  key \in DOMAIN libPolicy =>
                       /\ method = "encryption" => libFuncs[i] = BuildEncryptingFunc(options)
                       /\ method = "rounding" => libFuncs[i] = BuildRoundingFunc(options)
                       /\ method = "data_range" => libFuncs[i] = BuildRangingFunc(options)
                       /\ method \in {"blank_impute", "pii_reduction"} =>
                              libFuncs[i] = BuildMaskingFunc(options)
        /\ \A k \in 1..Len(libLog) :
               LET key == columns[libLog[k].col]
               IN  /\ (key \notin DOMAIN libPolicy \/ k \in CallsOf({"non"})) =>
                          libLog[k].out = libLog[k].in
                   /\ (key \in DOMAIN libPolicy /\ libPolicy[key].Method \notin KnownMethods) =>
                          libLog[k].out = <<>>

\* a blank_impute column masked a value while the other column, without
\* policy entry, passed one through
C15_Witness ==
    /\ Len(libLog) = 2
    /\ DOMAIN libPolicy = {ColId} /\ libPolicy[ColId].Method = "blank_impute"
    /\ libLog[1].col = 1 /\ libLog[1].in = <<"a", "b", "c", "d", "e", "f">>
    /\ libLog[1].out = <<"a", "*", "*", "*", "*", "f">>
    /\ libLog[2].col = 2 /\ libLog[2].out = <<"a", "b">>

(* ------------------------------------------------------------------ *)
(* C17                                                                 *)
(* ------------------------------------------------------------------ *)
\* C17: what a call of an Encryptor returns is determined by the input of
\* that call and the options it was built from: it is what the function
\* returns when called first after construction, whatever was called before.
C17_EncryptorPure ==
    \A k \in CallsOf({"encryption"}) :
        libLog[k].out = ApplyFunc(BuildEncryptingFunc(OptionsOf(k)), libLog[k].in)

\* the same keyed Encryptor was called twice with the same non-empty input
C17_Witness ==
    /\ Len(libLog) = 2
    /\ CallsOf({"encryption"}) = {1, 2}
    /\ libLog[1].col = libLog[2].col
    /\ libFuncs[libLog[1].col].kind = "Encryptor"
    /\ libLog[1].in = <<"a", "b">> /\ libLog[2].in = <<"a", "b">>
    /\ libLog[1].out = libLog[2].out

(* ------------------------------------------------------------------ *)
(* C18, C19                                                            *)
(* ------------------------------------------------------------------ *)
\* the calls made to a Masker whose options parsed, fore and aft not negative
MaskerCalls ==
    { k \in CallsOf({"blank_impute", "pii_reduction"}) :
        /\ libFuncs[libLog[k].col].kind = "Masker"
        /\ libFuncs[libLog[k].col].fore >= 0 /\ libFuncs[libLog[k].col].aft >= 0 }

MaskerOf(k) == libFuncs[libLog[k].col]

ForeOf(k) == SubSeq(libLog[k].in, 1, MaskerOf(k).fore)

AftOf(k) == SubSeq(libLog[k].in, Len(libLog[k].in) - MaskerOf(k).aft + 1, Len(libLog[k].in))

\* C18: with keepLength true, an input of length at least fore + aft, however
\* long, comes back as its first fore characters, length - fore - aft copies
\* of maskChar and its last aft characters; with a maskChar of one byte the
\* output is as long as the input.
C18_KeepLengthMask ==
    \A k \in MaskerCalls :
        (MaskerOf(k).keepLength /\ Len(libLog[k].in) >= MaskerOf(k).fore + MaskerOf(k).aft) =>
            /\ libLog[k].out =
                   ForeOf(k)
                   \o Repeat(MaskerOf(k).maskChar,
                             Len(libLog[k].in) - MaskerOf(k).fore - MaskerOf(k).aft)
                   \o AftOf(k)
            /\ Len(MaskerOf(k).maskChar) = 1 => Len(libLog[k].out) = Len(libLog[k].in)

\* C19: a Masker returns the empty string for the empty input and for an
\* input shorter than fore + aft; with keepLength false it returns, for a
\* non-empty input of length at least fore + aft, the first fore characters,
\* maskChar once, and the last aft characters.
C19_ShortAndSingleMask ==
    \A k \in MaskerCalls :
        /\ (libLog[k].in = <<>> \/ Len(libLog[k].in) < MaskerOf(k).fore + MaskerOf(k).aft) =>
               libLog[k].out = <<>>
        /\ (/\ libLog[k].in # <<>>
            /\ Len(libLog[k].in) >= MaskerOf(k).fore + MaskerOf(k).aft
            /\ ~MaskerOf(k).keepLength) =>
               libLog[k].out = ForeOf(k) \o MaskerOf(k).maskChar \o AftOf(k)

\* an input of length exactly fore + aft came back whole around the mask,
\* and a shorter one came back empty
C19_Witness ==
    /\ Len(libLog) = 2
    /\ MaskerCalls = {1, 2}
    /\ MaskerOf(1).fore = 1 /\ MaskerOf(1).aft = 1 /\ ~MaskerOf(1).keepLength
    /\ libLog[1].in = <<"a", "b">> /\ libLog[1].out = <<"a", "*", "b">>
    /\ Len(libLog[2].in) = 1 /\ libLog[2].out = <<>>

(* ------------------------------------------------------------------ *)
(* C20                                                                 *)
(* ------------------------------------------------------------------ *)
\* the calls made to a Ranger whose options parsed, with bin >= 1 and an
\* input that parsed
RangerCalls ==
    { k \in CallsOf({"data_range"}) :
        /\ libFuncs[libLog[k].col].kind = "Ranger"
        /\ Len(libFuncs[libLog[k].col].boundary) >= 2
        /\ ~ParseFloat(libLog[k].in).err }

BoundaryOf(k) == libFuncs[libLog[k].col].boundary
BinOf(k) == Len(BoundaryOf(k)) - 1
LowerOf(k) == ParseFloat(OptionsOf(k).Lower).val
UpperOf(k) == ParseFloat(OptionsOf(k).Upper).val
ValueOf(k) == ParseFloat(libLog[k].in).val
Tilde == <<" ", "~", " ">>

RangerBoundaries(k) ==
    /\ \A i \in 0..(BinOf(k) - 1) :
           BoundaryOf(k)[i + 1] * BinOf(k) = LowerOf(k) * BinOf(k) + (UpperOf(k) - LowerOf(k)) * i
    /\ BoundaryOf(k)[BinOf(k) + 1] = UpperOf(k)

RangerInside(k) ==
    (LowerOf(k) <= ValueOf(k) /\ ValueOf(k) < UpperOf(k)) =>
        \E i \in 1..BinOf(k) :
            /\ libLog[k].out = FormatV(BoundaryOf(k)[i]) \o Tilde \o FormatV(BoundaryOf(k)[i + 1])
            /\ BoundaryOf(k)[i] <= ValueOf(k) /\ ValueOf(k) < BoundaryOf(k)[i + 1]

\* C20 as stated: boundaries B[i] = lower + (upper - lower)*i/N, B[N] = upper;
\* a value in [lower, upper) is labelled by the two consecutive boundaries
\* around it, a value on a boundary going to the upper bin; every value
\* >= upper is labelled "<upper> ~ ".
C20_RangerLabels ==
    \A k \in RangerCalls :
        /\ RangerBoundaries(k)
        /\ RangerInside(k)
        /\ ValueOf(k) >= UpperOf(k) => libLog[k].out = FormatV(UpperOf(k)) \o Tilde

\* C20 amended: the same, the label "<upper> ~ " for the values >= upper
\* being claimed only of a Ranger with lower <= upper.
C20_RangerLabelsOrdered ==
    \A k \in RangerCalls :
        /\ RangerBoundaries(k)
        /\ RangerInside(k)
        /\ (LowerOf(k) <= UpperOf(k) /\ ValueOf(k) >= UpperOf(k)) =>
               libLog[k].out = FormatV(UpperOf(k)) \o Tilde

\* lower 0, upper 10, bin 5: 4 went to "4 ~ 6" and 10 to "10 ~ "
C20_Witness ==
    /\ Len(libLog) = 2
    /\ RangerCalls = {1, 2}
    /\ libLog[1].col = libLog[2].col /\ BinOf(1) = 5
    /\ libLog[1].in = <<"4">> /\ libLog[1].out = <<"4", " ", "~", " ", "6">>
    /\ libLog[2].in = <<"1", "0">> /\ libLog[2].out = <<"1", "0", " ", "~", " ">>


(* ------------------------------------------------------------------ *)
(* C27                                                                 *)
(* ------------------------------------------------------------------ *)
\* a sender stands at `queue <- row` on a queue that has been closed
SendOnClosed ==
    \/ apc = "send" /\ iClosed
    \/ \E b \in Procs : bpc[b] = "send" /\ tClosed
    \/ \E c \in Procs : cpc[c] = "send" /\ aClosed

\* C27: in no run, the query succeeding or failing, does the producer or a
\* B or C worker stand at an enqueue into a queue the coordinator has
\* already closed, and no such send has panicked the process.
C27_NoSendOnClosed == ~SendOnClosed /\ ~panicked

(* ------------------------------------------------------------------ *)
(* C28                                                                 *)
(* ------------------------------------------------------------------ *)
\* C28: in a successful run the raw-tuple queue is closed, and the cursor
\* released, only after A has sent its completion; the canonical-row queue
\* only after N B-completions were received (so after every B is done and
\* the raw-tuple queue is closed); the redacted-row queue only after N
\* C-completions (so after every C is done and the canonical-row queue is
\* closed).
C28_ClosedInPipelineOrder ==
    ~qerr =>
        /\ (iClosed \/ rowsClosed) => (apc = "done" /\ iClosed /\ rowsClosed)
        /\ tClosed => (iClosed /\ completedTrans >= routineCount /\ AllBDone)
        /\ aClosed => (tClosed /\ completedAnony >= routineCount /\ AllCDone)

\* two normalizers and two de-identifiers, rows exported, all three queues closed
C28_Witness ==
    /\ ~qerr /\ routineCount >= 2 /\ Len(result) >= 1
    /\ iClosed /\ tClosed /\ aClosed /\ ~ret.returned

(* ------------------------------------------------------------------ *)
(* C29                                                                 *)
(* ------------------------------------------------------------------ *)
\* C29: for every worker count and queue capacity (unbuffered included), a
\* run whose query succeeds never reaches a state where no step of the
\* coordinator or of a worker is possible before the export has returned.
C29_NoDeadlockOnSuccess == (~qerr /\ ~ret.returned) => ENABLED Next

\* unbuffered queues, two workers per stage, two rows: the Evaluation came back
C29_Witness ==
    /\ ReturnedOk /\ queueSize = 0 /\ routineCount >= 2
    /\ Len(result) >= 2 /\ Len(sink) = Len(result) + 1

(* ------------------------------------------------------------------ *)
(* C30                                                                 *)
(* ------------------------------------------------------------------ *)
\* the coordinator's next step would close a queue that is already closed
CloseOfClosed ==
    \/ mainpc = "select" /\ apc = "quit" /\ iClosed
    \/ mainpc = "closeT" /\ tClosed
    \/ mainpc = "closeA" /\ aClosed
    \/ mainpc = "select" /\ quitTrans > 0 /\ completedTrans + 1 >= routineCount /\ tClosed
    \/ mainpc = "select" /\ quitAnony > 0 /\ completedAnony + 1 >= routineCount /\ aClosed

\* completion tokens emitted so far: those waiting plus those received
TransTokens == quitTrans + completedTrans
AnonyTokens == quitAnony + completedAnony

\* C30: in every run no queue is closed a second time; the completion tokens
\* emitted are one per finished B worker and one per finished C worker, so
\* the coordinator's counters never exceed N; a successful run returns with
\* exactly N of each.
C30_CloseOnceTokenOnce ==
    /\ ~CloseOfClosed
    /\ TransTokens = Cardinality({b \in Procs : bpc[b] = "done"})
    /\ AnonyTokens = Cardinality({c \in Procs : cpc[c] = "done"})
    /\ completedTrans <= routineCount /\ completedAnony <= routineCount
    /\ ReturnedOk => (completedTrans = routineCount /\ completedAnony = routineCount)

\* every worker has sent its token and the coordinator has counted all of them
C30_Witness ==
    /\ routineCount >= 2 /\ completedTrans = routineCount
    /\ completedAnony = routineCount /\ iClosed /\ tClosed /\ aClosed


(* ------------------------------------------------------------------ *)
(* The Rounder alone                                                   *)
(* ------------------------------------------------------------------ *)
RoundAlgorithms == {"round", "ceil", "floor"}
RoundPositions == {0 - 3, 0 - 1, 0, 1, 2}

RoundPolicies ==
    { [key \in {ColId} |-> OptWith("rounding", Rounder(algorithm, position), 0)] :
        algorithm \in RoundAlgorithms, position \in RoundPositions }

\* values whose products and quotients with the powers of ten used here are
\* computed without a rounding error that crosses an integer
RoundInputs ==
    { <<"1", "5", "0", "0">>, <<"1", "4", "4", "9">>, <<"1", "2">>,
      <<"2", ".", "5">>, <<"-", "2", ".", "5">>, <<"0", ".", "1", "2", "5">>,
      <<"0", ".", "4">>, <<"-", "0", ".", "4">>, <<"a">> }

InitRound ==
    /\ CallInit(1, 0, <<>>, EmptyMap)
    /\ qerr = FALSE
    /\ AnoIdle
    /\ libPolicy \in RoundPolicies
    /\ libFuncs = funcList(libPolicy)
    /\ libLog = <<>>
    /\ OthersIdle

NextRound == \E i \in 1..Len(columns), value \in RoundInputs : Lib_Call(i, value)

SpecRound == InitRound /\ [][NextRound]_vars

(* ------------------------------------------------------------------ *)
(* C21                                                                 *)
(* ------------------------------------------------------------------ *)
\* the calls of a Rounder on a value that parses
RounderCalls ==
    { k \in CallsOf({"rounding"}) :
        /\ libFuncs[libLog[k].col].kind = "Rounder"
        /\ ~ParseFloat(libLog[k].in).err }

PositionOf(k) == OptionsOf(k).Position
AlgorithmOf(k) == OptionsOf(k).Algorithm

\* the distance between neighbouring results, in the unit of the values
GridOf(k) ==
    IF PositionOf(k) > 0 THEN Unit \div Pow10(PositionOf(k))
    ELSE Unit * Pow10(0 - PositionOf(k))

\* the number of characters after the decimal point, 0 without one
FracDigits(str) ==
    IF \E i \in 1..Len(str) : str[i] = "."
    THEN Len(str) - (CHOOSE i \in 1..Len(str) : str[i] = ".")
    ELSE 0

HasPoint(str) == \E i \in 1..Len(str) : str[i] = "."

\* the printed result read back as a number
ResultOf(k) == ParseFloat(libLog[k].out).val

\* C21: the result of a Rounder is a multiple of 10^-position, printed with
\* exactly position fractional digits when position > 0 and with none (and
\* no decimal point) otherwise; under round it is the multiple nearest to
\* the value, a tie going away from zero; under ceil the least multiple not
\* below the value; under floor the greatest multiple not above it.  So
\* 1500 at position -3 under round gives 2000 and -2.5 at position 0 gives -3.
C21_Rounder ==
    \A k \in RounderCalls :
        LET out == libLog[k].out
            v == ValueOf(k)
            r == ResultOf(k)
            g == GridOf(k)
        IN  /\ ~ParseFloat(out).err
            /\ IF PositionOf(k) > 0 THEN FracDigits(out) = PositionOf(k)
               ELSE ~HasPoint(out)
            /\ r % g = 0
            /\ AlgorithmOf(k) = "round" =>
                   /\ 2 * Abs(r - v) <= g
                   /\ 2 * Abs(r - v) = g => Abs(r) > Abs(v)
            /\ AlgorithmOf(k) = "ceil" => (r >= v /\ r - v < g)
            /\ AlgorithmOf(k) = "floor" => (r <= v /\ v - r < g)
            /\ (AlgorithmOf(k) = "round" /\ PositionOf(k) = 0 - 3
                  /\ libLog[k].in = <<"1", "5", "0", "0">>) => out = <<"2", "0", "0", "0">>
            /\ (AlgorithmOf(k) = "round" /\ PositionOf(k) = 0
                  /\ libLog[k].in = <<"-", "2", ".", "5">>) => out = <<"-", "3">>

\* round at position -3 was given 1500 and answered 2000 (a tie, away from
\* zero), then 1449 and answered 1000
C21_Witness ==
    /\ Len(libLog) = 2
    /\ libPolicy[ColId].Options.Algorithm = "round"
    /\ libPolicy[ColId].Options.Position = 0 - 3
    /\ libLog[1].col = 1 /\ libLog[1].in = <<"1", "5", "0", "0">>
    /\ libLog[1].out = <<"2", "0", "0", "0">>
    /\ libLog[2].col = 1 /\ libLog[2].in = <<"1", "4", "4", "9">>
    /\ libLog[2].out = <<"1", "0", "0", "0">>


(* ------------------------------------------------------------------ *)
(* transformToCsvFormat alone                                          *)
(* ------------------------------------------------------------------ *)
MaxFields == 3

CsvValues ==
    { <<>>, <<"a", "b">>, <<"a", ",", "b">>, <<",">>, <<"a", "\"", "b">>,
      <<"\"", "a", ",", "b", "\"">> }

\* the header and rows of up to MaxFields fields
CsvRows == {columns} \cup UNION { [1..n -> CsvValues] : n \in 0..MaxFields }

\* no export call, tester or function table is involved
InitCsv ==
    /\ CallInit(1, 0, <<>>, EmptyMap)
    /\ qerr = FALSE
    /\ AnoIdle /\ LibIdle /\ OthersIdle

\* buffer := transformToCsvFormat(data)
Csv_Format(data) ==
    /\ csvData' = data
    /\ csvBuffer' = transformToCsvFormat(data)
    /\ UNCHANGED <<routineCount, queueSize, result, qerr, didOptions, mainVars, aVars, bVars,
                   cVars, dVars, iVars, tVars, aqVars, quitVars, panicked,
                   anoVars, libVars, entryVars, envVars, sideVars>>

NextCsv == \E data \in CsvRows : Csv_Format(data)

SpecCsv == InitCsv /\ [][NextCsv]_vars

(* ------------------------------------------------------------------ *)
(* C22                                                                 *)
(* ------------------------------------------------------------------ *)
HasComma(field) == \E j \in DOMAIN field : field[j] = ","

\* the number of characters field i takes in the record
CsvWidth(data, i) == Len(data[i]) + (IF HasComma(data[i]) THEN 2 ELSE 0)

\* where field i starts in the record: after the fields before it and one
\* comma for each of them
RECURSIVE CsvStart(_, _)
CsvStart(data, i) ==
    IF i = 1 THEN 1 ELSE CsvStart(data, i - 1) + CsvWidth(data, i - 1) + 1

\* the end of the last field (0 for a row without fields)
CsvEnd(data) ==
    IF Len(data) = 0 THEN 0 ELSE CsvStart(data, Len(data)) + CsvWidth(data, Len(data)) - 1

\* C22: the record of a row of n fields holds the fields in order, field i
\* wrapped in double quotes exactly when it holds a comma and verbatim
\* otherwise (embedded quotes unchanged), one comma after each field but the
\* last, and \r\n at the end and nowhere else added; the header row is
\* encoded the same way.
C22_CsvEncoding ==
    csvBuffer # <<>> =>
        LET n == Len(csvData)
            buf == csvBuffer
        IN  /\ Len(buf) = CsvEnd(csvData) + 2
            /\ buf[Len(buf) - 1] = "\r" /\ buf[Len(buf)] = "\n"
            /\ \A i \in 1..n :
                   LET from == CsvStart(csvData, i)
                       width == CsvWidth(csvData, i)
                       piece == SubSeq(buf, from, from + width - 1)
                   IN  /\ IF HasComma(csvData[i])
                          THEN piece = <<"\"">> \o csvData[i] \o <<"\"">>
                          ELSE piece = csvData[i]
                       /\ i < n => buf[from + width] = ","

\* "a,b", ab and a"b were encoded as "a,b",ab,a"b\r\n
C22_Witness ==
    /\ csvData = << <<"a", ",", "b">>, <<"a", "b">>, <<"a", "\"", "b">> >>
    /\ csvBuffer = <<"\"", "a", ",", "b", "\"", ",", "a", "b", ",", "a", "\"", "b", "\r", "\n">>


(* ------------------------------------------------------------------ *)
(* The export entry points and the routine count of package core       *)
(* ------------------------------------------------------------------ *)
MaxEntryCalls == 3
MaxCount == 2

InvalidRoutineCount == "Invaild routine count\r\n"

\* var RoutineCount int64: zero until SetRoutineCount is called
InitEntry ==
    /\ CallInit(1, 0, <<>>, EmptyMap)
    /\ qerr = FALSE
    /\ AnoIdle /\ LibIdle /\ CsvIdle /\ EnvQuiet /\ SideIdle
    /\ RoutineCount = 0
    /\ entryLog = <<>>

EntryUnchanged ==
    UNCHANGED <<routineCount, queueSize, result, qerr, didOptions, mainVars, aVars, bVars,
                cVars, dVars, iVars, tVars, aqVars, quitVars, panicked,
                anoVars, libVars, csvVars, envVars, sideVars>>

\* Variant: the count is stored as given.
SetRoutineCount_Raw(count) ==
    /\ RoutineCount' = count
    /\ UNCHANGED entryLog
    /\ EntryUnchanged

\* SetRoutineCount(count)
SetRoutineCount(count) ==
    /\ RoutineCount' = IF count > 0 THEN count ELSE 4
    /\ UNCHANGED entryLog
    /\ EntryUnchanged

GetRoutineCount == RoutineCount

\* the body shared by ExportDataOnServer and ExportDataOnLambda: the error
\* before anything is started, or the call of the export function
ExportData(entry, callee) ==
    /\ Len(entryLog) < MaxEntryCalls
    /\ LET routineCnt == GetRoutineCount
       IN  entryLog' = Append(entryLog,
               IF routineCnt = 0
               THEN [entry |-> entry, routineCount |-> routineCnt, called |-> "none",
                     err |-> InvalidRoutineCount]
               ELSE [entry |-> entry, routineCount |-> routineCnt, called |-> callee,
                     err |-> ""])
    /\ UNCHANGED RoutineCount
    /\ EntryUnchanged

ExportDataOnServer == ExportData("ExportDataOnServer", "Ex_exportData")
ExportDataOnLambda == ExportData("ExportDataOnLambda", "Ex_exportDataOnLambda")

NextEntry ==
    \/ \E count \in (0 - 1)..MaxCount : SetRoutineCount(count)
    \/ ExportDataOnServer
    \/ ExportDataOnLambda

SpecEntry == InitEntry /\ [][NextEntry]_vars

WriteFails(n) == sinkFailAt > 0 /\ n >= sinkFailAt

\* the sink fails at the header or at the first data row
InitSink ==
    \E rc \in 1..MaxRoutines, qs \in 0..MaxQueue, res \in Results, options \in Policies :
        /\ CallInit(rc, qs, res, options)
        /\ AnoIdle /\ LibIdle /\ CsvIdle /\ EntryIdle /\ SideIdle
        /\ sinkFailAt \in 1..2
        /\ dbTracking = FALSE /\ cancelAt = 0 - 1

SpecSink == InitSink /\ [][Next]_vars

(* ------------------------------------------------------------------ *)
(* C24                                                                 *)
(* ------------------------------------------------------------------ *)
\* C24: once a write to the sink has returned a failure the writer makes no
\* further write, and an export call that returns after a failed write does
\* not return success.
C24_WriterAbortsOnSinkError ==
    /\ \A n \in 1..Len(sink) : WriteFails(n) => n = Len(sink)
    /\ (ret.returned /\ WriteFails(Len(sink))) => ret.err # ""

(* ------------------------------------------------------------------ *)
(* The export call with a request context that is cancelled            *)
(* ------------------------------------------------------------------ *)
InitCtx ==
    \E rc \in 1..MaxRoutines, qs \in 0..MaxQueue, res \in Results, options \in Policies :
        /\ CallInit(rc, qs, res, options)
        /\ AnoIdle /\ LibIdle /\ CsvIdle /\ EntryIdle /\ SideIdle
        /\ sinkFailAt = 0
        /\ dbTracking \in BOOLEAN /\ cancelAt = 0 - 1

\* ctx is cancelled while executeExportQuery is about to call rows.Next():
\* rows opened by QueryxContext end here with rows.Err() = ctx.Err(); rows
\* opened by Queryx were started without the context and go on
Ctx_Cancel ==
    /\ ~panicked /\ cancelAt < 0
    /\ apc = "next"
    /\ cancelAt' = aIdx
    /\ IF dbTracking
       THEN result' = SubSeq(result, 1, aIdx) /\ qerr' = TRUE
       ELSE UNCHANGED <<result, qerr>>
    /\ UNCHANGED <<routineCount, queueSize, didOptions, anoVars, libVars, csvVars, entryVars,
                   sideVars, sinkFailAt, dbTracking, mainVars, aVars, bVars, cVars, dVars,
                   iVars, tVars, aqVars, quitVars, panicked>>

NextCtx == Next \/ Ctx_Cancel

SpecCtx == InitCtx /\ [][NextCtx]_vars

(* ------------------------------------------------------------------ *)
(* C25                                                                 *)
(* ------------------------------------------------------------------ *)
\* C25: after the request context was cancelled while A was advancing the
\* cursor, with or without dbInfo.Tracking, A reads no further row, its
\* completion reports failure, and an export call that returns returns the
\* query error.
C25_CancellationIsQueryFailure ==
    cancelAt >= 0 =>
        /\ aIdx = cancelAt
        /\ apc \in {"quit", "done"} => qerr
        /\ ret.returned => ret.err = QueryError


(* ------------------------------------------------------------------ *)
(* The export call under policies with malformed options               *)
(* ------------------------------------------------------------------ *)
\* rounding of a column of names; a data_range with a lower bound that is
\* no number; a data_range with a negative bin
ErrPolicies ==
    { [key \in {ColId, ColNm} |->
          IF key = ColId THEN Opt("non", 0) ELSE OptWith("rounding", Rounder("round", 0), 1)],
      [key \in {ColNm} |->
          OptWith("data_range", Ranger(<<"x">>, <<"1", "0">>, <<"5">>), 0)],
      [key \in {ColId} |->
          OptWith("data_range", Ranger(<<"0">>, <<"1", "0">>, <<"-", "1">>), 1)] }

InitErr ==
    \E rc \in 1..MaxRoutines, qs \in 0..MaxQueue, res \in Results, options \in ErrPolicies :
        InitWith(rc, qs, res, options)

NextErr == Next \/ (\E c \in Procs : C_BuildPanic(c))

SpecErr == InitErr /\ [][NextErr]_vars

(* ------------------------------------------------------------------ *)
(* C23                                                                 *)
(* ------------------------------------------------------------------ *)
\* what the claim puts into the cell of column i for the value
ClaimedCell(i, value) ==
    IF columns[i] \notin DOMAIN didOptions THEN value
    ELSE LET option == didOptions[columns[i]]
         IN  CASE option.Method = "rounding" /\ ParseFloat(value).err ->
                      <<"parseFloat error:">> \o value
               [] option.Method = "data_range" /\ ParseFloat(option.Options.Lower).err ->
                      <<"lower parameter error">>
               [] option.Method = "data_range" /\ ParseFloat(option.Options.Upper).err ->
                      <<"upper parameter error">>
               [] option.Method = "data_range" ->
                      <<"bin parameter error">>
               [] OTHER -> value

ClaimedRow(k) ==
    LET v == Convert(result[k])
    IN  [i \in 1..Len(columns) |-> ClaimedCell(i, v[i])]

\* every row was written with the error string in the affected cell and the
\* other cells as they are, and the enabled evaluator was given every row
ErrorsInBand ==
    /\ Len(sink) = 1 + Len(result)
    /\ \A n \in 1..Len(SinkRows) :
           \E k \in 1..Len(result) : SinkRows[n].line = transformToCsvFormat(ClaimedRow(k))
    /\ \A k \in 1..Len(result) :
           \E n \in 1..Len(SinkRows) : SinkRows[n].line = transformToCsvFormat(ClaimedRow(k))
    /\ isEval => Len(fed) = Len(result)
    /\ \A n \in 1..Len(fed) : \E k \in 1..Len(result) : fed[n].data = ClaimedRow(k)

\* C23: under a policy with a malformed option, or with values its Rounder
\* or Ranger cannot parse, an export whose query succeeds is never aborted
\* by a panic, and when it returns every row has been written with the
\* in-band error string in the affected cell, the other cells unaffected,
\* and the enabled evaluator has counted every row.
C23_ErrorsInBand ==
    ~qerr =>
        /\ ~panicked
        /\ ReturnedOk => ErrorsInBand

\* what holds of the exports that do return
ReturnedInBand == (~qerr /\ ReturnedOk) => ErrorsInBand


(* ------------------------------------------------------------------ *)
(* The Encryptors of the C workers, call by call                       *)
(* ------------------------------------------------------------------ *)
MaxEncCalls == 3

EncValues == { <<"a">>, <<"b">> }

EncPolicies ==
    { [key \in {ColNm} |-> OptWith("encryption", Encrypt("hmac", "sha256", <<"k">>), 0)],
      [key \in {ColNm} |-> OptWith("encryption", Encrypt("hash(md5)", "", <<>>), 0)] }

\* Variant: one table, and so one mac, is shared by all workers.
MacOf_Shared(c) == 1

\* the mac object used by worker c: every processDeIdentification goroutine
\* builds its own funcList, so BuildEncryptingFunc creates one mac per worker
MacOf(c) == c

\* the Encryptor of the encrypted column
EncFunc == BuildEncryptingFunc(didOptions[ColNm].Options)

InitEnc ==
    \E rc \in 1..MaxRoutines, options \in EncPolicies :
        /\ CallInit(rc, 0, <<>>, options)
        /\ qerr = FALSE
        /\ AnoIdle /\ LibIdle /\ CsvIdle /\ EntryIdle /\ EnvQuiet /\ AuxIdle
        /\ encMac = [m \in { MacOf(c) : c \in 1..rc } |-> <<>>]
        /\ encPc = [c \in 1..rc |-> "idle"]
        /\ encIn = [c \in 1..rc |-> <<>>]
        /\ encLog = <<>>

EncUnchanged ==
    UNCHANGED <<routineCount, queueSize, result, qerr, didOptions, mainVars, aVars, bVars,
                cVars, dVars, iVars, tVars, aqVars, quitVars, panicked,
                anoVars, libVars, csvVars, entryVars, envVars, auxVars>>

\* mac.Write([]byte(inString))
Enc_Write(c, value) ==
    /\ encPc[c] = "idle"
    /\ Len(encLog) < MaxEncCalls
    /\ encMac' = [encMac EXCEPT ![MacOf(c)] = @ \o value]
    /\ encIn' = [encIn EXCEPT ![c] = value]
    /\ encPc' = [encPc EXCEPT ![c] = "written"]
    /\ UNCHANGED encLog
    /\ EncUnchanged

\* hex.EncodeToString(mac.Sum(nil)): the value the call returns
Enc_Sum(c) ==
    /\ encPc[c] = "written"
    /\ encLog' = Append(encLog,
           [worker |-> c, in |-> encIn[c],
            out |-> Digest(EncFunc.scheme, EncFunc.key, encMac[MacOf(c)])])
    /\ encPc' = [encPc EXCEPT ![c] = "summed"]
    /\ UNCHANGED <<encMac, encIn>>
    /\ EncUnchanged

\* defer mac.Reset()
Enc_Reset(c) ==
    /\ encPc[c] = "summed"
    /\ encMac' = [encMac EXCEPT ![MacOf(c)] = <<>>]
    /\ encPc' = [encPc EXCEPT ![c] = "idle"]
    /\ UNCHANGED <<encIn, encLog>>
    /\ EncUnchanged

NextEnc ==
    \E c \in Procs :
        \/ \E value \in EncValues : Enc_Write(c, value)
        \/ Enc_Sum(c)
        \/ Enc_Reset(c)

SpecEnc == InitEnc /\ [][NextEnc]_vars

(* ------------------------------------------------------------------ *)
(* C31                                                                 *)
(* ------------------------------------------------------------------ *)
\* C31: no two C workers are inside a call on the same mac object at the
\* same time, and every encrypted cell is the digest of its own input
\* alone, whatever the other workers do between a worker's write and its sum.
C31_EncryptorNotShared ==
    /\ \A c1, c2 \in Procs :
           (c1 # c2 /\ encPc[c1] # "idle" /\ encPc[c2] # "idle") => MacOf(c1) # MacOf(c2)
    /\ \A k \in 1..Len(encLog) :
           encLog[k].out = ApplyFunc(BuildEncryptingFunc(didOptions[ColNm].Options),
                                     encLog[k].in)

\* two workers stand between their write and their sum with different
\* inputs, after a call has been completed
C31_Witness ==
    /\ routineCount >= 2 /\ Len(encLog) >= 1
    /\ encPc[1] = "written" /\ encPc[2] = "written" /\ encIn[1] # encIn[2]


(* ------------------------------------------------------------------ *)
(* The export call with queues that hold more than one row             *)
(* ------------------------------------------------------------------ *)
OrderRows == MaxRows + 1

\* results whose first two rows differ
OrderResults == { res \in [1..OrderRows -> RawRows] : res[1] # res[2] }

InitOrder ==
    \E rc \in 1..MaxRoutines, qs \in {0, MaxQueue + 1}, res \in OrderResults,
       options \in {EmptyMap, [key \in {ColNm} |-> Opt("non", 2)]} :
        InitWith(rc, qs, res, options)

SpecOrder == InitOrder /\ [][Next]_vars

(* ------------------------------------------------------------------ *)
(* C32                                                                 *)
(* ------------------------------------------------------------------ *)
\* the record a row will be written as, from each stage of the pipeline
LineOfOutput(o) == transformToCsvFormat(o)
LineOfConverted(v) == LineOfOutput(Deidentify(funcList(didOptions), v))
LineOfRaw(r) == LineOfConverted(Convert(r))

LinesOf(queue, LineOf(_)) == [k \in 1..Len(queue) |-> LineOf(queue[k])]

\* with one worker per stage: the records written, then the rows on their
\* way to the sink, the one nearest to the sink first
InPipelineOrder ==
    [k \in 1..Len(SinkRows) |-> SinkRows[k].line]
    \o (IF dpc \in {"eval", "write"} THEN <<LineOfOutput(row)>> ELSE <<>>)
    \o LinesOf(aDataQueue, LineOfOutput)
    \o (IF cpc[1] = "send" THEN <<LineOfOutput(output[1])>> ELSE <<>>)
    \o LinesOf(tDataQueue, LineOfConverted)
    \o (IF bpc[1] = "send" THEN <<LineOfConverted(converted[1])>> ELSE <<>>)
    \o LinesOf(iDataQueue, LineOfRaw)
    \o (IF apc = "send" THEN <<LineOfRaw(allocated)>> ELSE <<>>)

\* C32: with N = 1 the rows written and the rows on their way through the
\* queues and the workers are, in this order, the rows the cursor has
\* produced so far: every worker passes its rows on in the order it took
\* them, every queue is first in, first out, and the data rows reach the
\* sink in cursor order.
C32_OrderPreserved ==
    routineCount = 1 =>
        /\ InPipelineOrder = [k \in 1..aIdx |-> LineOfRaw(result[k])]
        /\ \A k \in 1..Len(SinkRows) : SinkRows[k].line = LineOfRaw(result[k])

\* one worker per stage, queues of two rows: two rows wait in the last queue
\* behind a written one
C32_Witness ==
    /\ routineCount = 1 /\ Len(aDataQueue) = 2 /\ aDataQueue[1] # aDataQueue[2]
    /\ Len(sink) >= 1

(* ------------------------------------------------------------------ *)
(* C33                                                                 *)
(* ------------------------------------------------------------------ *)
\* the registry of the tester: fingerprint -> frequency
Registry == anoTester.finalEncoder.freqDict

RowsAdded == SumOver(anoCount, AnoRows)

RegistrySound ==
    /\ \A key \in DOMAIN Registry : Registry[key] \in Nat /\ Registry[key] >= 1
    /\ SumOver(Registry, DOMAIN Registry) = RowsAdded

\* one class created with frequency 1, or one class incremented by 1;
\* every other class as it was
OneClassCounted ==
    \E key \in DOMAIN Registry' :
        /\ DOMAIN Registry' = DOMAIN Registry \cup {key}
        /\ Registry'[key] = (IF key \in DOMAIN Registry THEN Registry[key] + 1 ELSE 1)
        /\ \A other \in DOMAIN Registry \ {key} : Registry'[other] = Registry[other]

RegistryStep ==
    /\ DOMAIN Registry \subseteq DOMAIN Registry'
    /\ \A key \in DOMAIN Registry : Registry'[key] >= Registry[key]
    /\ IF RowsAdded' = RowsAdded + 1 THEN OneClassCounted ELSE Registry' = Registry

\* C33: after any sequence of rows added, every frequency of the registry
\* is a positive integer and the frequencies sum to the number of rows
\* added; adding one row creates one new class with frequency 1 or
\* increments exactly one class by 1 and leaves the others unchanged, and
\* no step removes or decrements a class.
C33_RegistryCounts ==
    /\ [](anoSrc \in AnoSources => RegistrySound)
    /\ [][(anoSrc \in AnoSources) => RegistryStep]_vars

\* rows were added into two classes, one of them more than once, past the
\* rows the registry started with
C33_Witness ==
    /\ anoSrc \in AnoSources
    /\ RowsAdded - Preloaded = MaxAdds
    /\ Cardinality(DOMAIN Registry) = 2
    /\ \E key \in DOMAIN Registry : Registry[key] >= 2

(* ------------------------------------------------------------------ *)
(* C34                                                                 *)
(* ------------------------------------------------------------------ *)
\* column i is evaluated under the mask given: a column the mask does not
\* reach keeps the value New gave it
Evaluated(i) == IF i <= Len(anoMask) THEN anoMask[i] ELSE TRUE

AgreeOnEvaluated(r1, r2) == \A i \in 1..Len(columns) : Evaluated(i) => r1[i] = r2[i]

\* C34: the mask set changes the first column-count entries of evalFields
\* and nothing else, whatever its length; the columns masked out do not
\* contribute to the fingerprint: two rows fed are counted in the same
\* class exactly when they agree on every column that is not masked out,
\* and the class of a row counts the rows fed that agree with it there.
C34_MaskedColumnsIgnored ==
    anoSrc \in AnoSources =>
        /\ anoTester.evalFields = [i \in 1..Len(columns) |-> Evaluated(i)]
        /\ \A r1, r2 \in FedRows : (KeyOf(r1) = KeyOf(r2)) <=> AgreeOnEvaluated(r1, r2)
        /\ \A r \in FedRows :
               /\ KeyOf(r) \in DOMAIN Registry
               /\ Registry[KeyOf(r)] =
                      SumOver(anoCount, {q \in AnoRows : AgreeOnEvaluated(q, r)})

\* a mask longer than the column count that leaves a column out; rows fed
\* that differ only in that column, and a row that differs in another
C34_Witness ==
    /\ anoSrc \in AnoSources
    /\ Len(anoMask) > Len(columns)
    /\ \E i \in 1..Len(columns) : ~Evaluated(i)
    /\ \E r1, r2, r3 \in FedRows :
           /\ r1 # r2 /\ KeyOf(r1) = KeyOf(r2)
           /\ KeyOf(r3) # KeyOf(r1)

(* ------------------------------------------------------------------ *)
(* The normalizer over the values a driver hands to MapScan            *)
(* ------------------------------------------------------------------ *)
\* rows whose first field runs over the types of driver values and whose
\* second field, a string or a byte sequence, is different in every row
NormRows ==
    { RawRow(IntVal(0 - 12), StrVal(<<"a">>)),
      RawRow(BoolVal(TRUE), BytesVal(<<"b">>)),
      RawRow(BoolVal(FALSE), StrVal(<<"c">>)),
      RawRow(TimeVal(<<2021, 3, 4, 5, 6, 7>>), BytesVal(<<"d">>)),
      RawRow(NilVal, StrVal(<<"e">>)) }

NormResults == UNION { [1..n -> NormRows] : n \in 0..MaxRows }

\* no column is de-identified; the evaluator is off or on
NormPolicies == { EmptyMap, [key \in {ColNm} |-> Opt("non", 2)] }

InitNorm ==
    \E rc \in 1..MaxRoutines, qs \in {0, 1}, res \in NormResults, options \in NormPolicies :
        InitWith(rc, qs, res, options)

SpecNorm == InitNorm /\ [][Next]_vars

(* ------------------------------------------------------------------ *)
(* C35                                                                 *)
(* ------------------------------------------------------------------ *)
\* the string the type table gives for a value
ClaimedString(value) ==
    CASE value = NilVal -> <<"-", "/", "-">>
      [] value.t # <<>> -> FormatTime(value.t)
      [] value.kind = "int64" -> FormatInt(value.i)
      [] value.kind = "bool" -> IF value.i = 1 THEN <<"t", "r", "u", "e">>
                                ELSE <<"f", "a", "l", "s", "e">>
      [] value.kind \in {"string", "slice"} -> value.s
      [] OTHER -> <<"-", "/", "-">>

ClaimedConverted(v) == [i \in 1..Len(columns) |-> ClaimedString(v[columns[i]])]

\* C35: the row a B worker holds after normalizing is, field by field,
\* the type table's string of a tuple the producer read: integers as
\* base-10 literals, booleans as true/false, strings and byte sequences
\* verbatim, timestamps as YYYY-MM-DDTHH:MM:SS, an absent value as "-/-".
C35_TypeTable ==
    \A b \in 1..routineCount :
        converted[b] # NoRow =>
            \E k \in 1..aIdx : converted[b] = ClaimedConverted(result[k])

(* ------------------------------------------------------------------ *)
(* Maskers called on inputs that differ in the part they hide          *)
(* ------------------------------------------------------------------ *)
MaskOpts ==
    { OptWith("pii_reduction", Masker(<<"2">>, <<"1">>, <<"*">>, StrFalse), 0),
      OptWith("pii_reduction", Masker(<<"2">>, <<"1">>, <<"*">>, StrTrue), 0),
      OptWith("blank_impute", Masker(<<"0">>, <<"0">>, <<"*">>, StrFalse), 0),
      OptWith("blank_impute", Masker(<<"0">>, <<"0">>, <<"#">>, StrTrue), 0),
      OptWith("blank_impute", Masker(<<"0">>, <<"1">>, <<"*", "#">>, StrFalse), 0) }

MaskPolicies == { [key \in {ColId} |-> option] : option \in MaskOpts }

MaskInputs ==
    { <<>>, <<"x">>, <<"a", "b", "f">>, <<"a", "b", "X", "f">>,
      <<"a", "b", "c", "d", "e", "f">>, <<"a", "b", "X", "Y", "Z", "f">>,
      <<"z", "b", "c", "d", "e", "f">>, <<"a", "b", "c", "d", "e", "g">> }

InitMask ==
    /\ CallInit(1, 0, <<>>, EmptyMap)
    /\ qerr = FALSE
    /\ AnoIdle
    /\ libPolicy \in MaskPolicies
    /\ libFuncs = funcList(libPolicy)
    /\ libLog = <<>>
    /\ OthersIdle

NextMask == \E i \in 1..Len(columns), value \in MaskInputs : Lib_Call(i, value)

SpecMask == InitMask /\ [][NextMask]_vars

(* ------------------------------------------------------------------ *)
(* C36                                                                 *)
(* ------------------------------------------------------------------ *)
\* calls j and k were made to the same Masker, on inputs at least
\* fore + aft long that share their first fore and last aft characters
SameOutside(j, k) ==
    LET f == libFuncs[libLog[j].col]
        a == libLog[j].in
        b == libLog[k].in
    IN  /\ libLog[j].col = libLog[k].col
        /\ f.kind = "Masker"
        /\ Len(a) >= f.fore + f.aft /\ Len(b) >= f.fore + f.aft
        /\ Slice(a, 0, f.fore) = Slice(b, 0, f.fore)
        /\ Slice(a, Len(a) - f.aft, Len(a)) = Slice(b, Len(b) - f.aft, Len(b))

\* the lengths are equal, or the Masker does not keep the length
LengthHidden(j, k) ==
    \/ Len(libLog[j].in) = Len(libLog[k].in)
    \/ ~libFuncs[libLog[j].col].keepLength

DbProcs == 3
Sources == {"s1", "s2"}

\* what the steps of this section leave alone
PipelineUnchanged ==
    UNCHANGED <<routineCount, queueSize, result, qerr, didOptions, mainVars, aVars, bVars,
                cVars, dVars, iVars, tVars, aqVars, quitVars, panicked,
                anoVars, libVars, csvVars, entryVars, envVars, encVars, anoMask>>

PipelineIdle ==
    /\ CallInit(1, 0, <<>>, EmptyMap)
    /\ qerr = FALSE
    /\ AnoIdle /\ LibIdle /\ CsvIdle /\ EntryIdle /\ EnvQuiet /\ EncIdle
    /\ anoMask = <<>>

NoConn == 0 - 1
IdleProc == [pc |-> "idle", uuid |-> "", raced |-> FALSE, conn |-> NoConn, err |-> ""]

\* the runtime's throw when it detects the race
FatalMapRace == "fatal error: concurrent map read and map write"

\* value, ok := gExDB[key]
GetDatabaseOf(map, key) ==
    IF key \in DOMAIN map THEN [conn |-> map[key], err |-> ""]
    ELSE [conn |-> NoConn, err |-> "Invalid database key"]

\* what a lookup that ran during an insertion can come back with
RacedLookups(key) ==
    { [conn |-> c, err |-> ""] : c \in 0..DbProcs }
        \cup { [conn |-> NoConn, err |-> "Invalid database key"],
               [conn |-> NoConn, err |-> FatalMapRace] }

Crashed == \E p \in DOMAIN dbProc : dbProc[p].err = FatalMapRace

\* connections made by createExternalConnectionPool at start-up have id 0
InitHandles ==
    /\ PipelineIdle
    /\ ApiIdle
    /\ \E loaded \in SUBSET Sources : gExDB = [uuid \in loaded |-> 0]
    /\ dbProc = [p \in 1..DbProcs |-> IdleProc]

\* GetDatabase("external", key) reaches the map access; no lock is taken
GetDatabase_Begin(p, key) ==
    /\ ~Crashed /\ dbProc[p].pc = "idle"
    /\ dbProc' = [dbProc EXCEPT ![p] =
                     [@ EXCEPT !.pc = "lookup", !.uuid = key,
                               !.raced = \E q \in DOMAIN dbProc : dbProc[q].pc = "store"]]
    /\ UNCHANGED <<gExDB, apiVars>>
    /\ PipelineUnchanged

\* the map access ends and GetDatabase returns
GetDatabase_End(p) ==
    /\ ~Crashed /\ dbProc[p].pc = "lookup"
    /\ \E got \in (IF dbProc[p].raced THEN RacedLookups(dbProc[p].uuid)
                   ELSE {GetDatabaseOf(gExDB, dbProc[p].uuid)}) :
           dbProc' = [dbProc EXCEPT ![p] =
                         [@ EXCEPT !.pc = "returned", !.conn = got.conn, !.err = got.err]]
    /\ UNCHANGED <<gExDB, apiVars>>
    /\ PipelineUnchanged

\* GenerateSource(source) has stored the source and calls
\* CreateConnectionPool(ctx, source, true), which opens the database
GenerateSource(p, uuid) ==
    /\ ~Crashed /\ dbProc[p].pc = "idle"
    /\ dbProc' = [dbProc EXCEPT ![p] = [@ EXCEPT !.pc = "open", !.uuid = uuid]]
    /\ UNCHANGED <<gExDB, apiVars>>
    /\ PipelineUnchanged

\* sql.Open or the ping failed: return err
CreateConnectionPool_Fail(p) ==
    /\ ~Crashed /\ dbProc[p].pc = "open"
    /\ dbProc' = [dbProc EXCEPT ![p] = [@ EXCEPT !.pc = "returned", !.err = "ping"]]
    /\ UNCHANGED <<gExDB, apiVars>>
    /\ PipelineUnchanged

\* gExDB[source.Uuid] = conn begins; no lock is taken
CreateConnectionPool_Begin(p) ==
    /\ ~Crashed /\ dbProc[p].pc = "open"
    /\ LET busy == { q \in DOMAIN dbProc : dbProc[q].pc \in {"lookup", "store"} }
       IN  dbProc' = [q \in DOMAIN dbProc |->
                         IF q = p THEN [dbProc[q] EXCEPT !.pc = "store", !.raced = busy # {}]
                         ELSE IF q \in busy THEN [dbProc[q] EXCEPT !.raced = TRUE]
                         ELSE dbProc[q]]
    /\ UNCHANGED <<gExDB, apiVars>>
    /\ PipelineUnchanged

\* the assignment ends; one that ran during another access of the map
\* may be lost or end in the runtime's throw
CreateConnectionPool_End(p) ==
    /\ ~Crashed /\ dbProc[p].pc = "store"
    /\ \E lost \in (IF dbProc[p].raced THEN BOOLEAN ELSE {FALSE}),
          err \in (IF dbProc[p].raced THEN {"", FatalMapRace} ELSE {""}) :
           /\ gExDB' = IF lost THEN gExDB ELSE Put(gExDB, dbProc[p].uuid, p)
           /\ dbProc' = [dbProc EXCEPT ![p] = [@ EXCEPT !.pc = "returned", !.err = err]]
    /\ UNCHANGED apiVars
    /\ PipelineUnchanged

NextHandles ==
    \E p \in 1..DbProcs :
        \/ \E key \in Sources : GetDatabase_Begin(p, key)
        \/ GetDatabase_End(p)
        \/ \E uuid \in Sources : GenerateSource(p, uuid)
        \/ CreateConnectionPool_Fail(p)
        \/ CreateConnectionPool_Begin(p)
        \/ CreateConnectionPool_End(p)

SpecHandles == InitHandles /\ [][NextHandles]_vars

(* ------------------------------------------------------------------ *)
(* C37                                                                 *)
(* ------------------------------------------------------------------ *)
\* C37: the map of external database handles is guarded by the mutex: no
\* lookup of a handle (GetDatabase) is inside the map while an insertion
\* of a handle (CreateConnectionPool) is.
C37_HandleMapGuarded ==
    \A p, q \in DOMAIN dbProc : ~(dbProc[p].pc = "lookup" /\ dbProc[q].pc = "store")

(* ------------------------------------------------------------------ *)
(* The cached list of APIs: periodic refresh and lookups               *)
(* ------------------------------------------------------------------ *)
MaxRefresh == 2
Finders == 2
Aliases == {"a1", "a2"}

\* who holds the mutex: a finder, or the goroutine of the refresh
UpdaterId == Finders + 1

\* model.Api: the alias and the refresh that read it from the database
Api(alias, gen) == [Alias |-> alias, gen |-> gen]

\* the lists In_getApiList can return at a refresh: one row per alias
ApiLists(gen) ==
    { <<>>, <<Api("a1", gen)>>, <<Api("a2", gen), Api("a1", gen)>> }

EmptyApis == [alias \in {} |-> Api("", 0)]

\* a map object, and the list it is filled from
MapObject(list) == [map |-> EmptyApis, list |-> list]

NotFound == [data |-> Api("", 0), err |-> "Not found API"]

\* data, ok := apis[param]
FindIn(map, param) ==
    IF param \in DOMAIN map THEN [data |-> map[param], err |-> ""] ELSE NotFound

\* what a read that ran during an insertion into the same map can give
RacedFinds(param) ==
    { [data |-> Api(param, gen), err |-> ""] : gen \in 1..MaxRefresh }
        \cup { NotFound, [data |-> Api("", 0), err |-> FatalMapRace] }

IdleUpdater == [pc |-> "idle", list |-> <<>>, idx |-> 1, count |-> 0]
IdleFinder == [pc |-> "idle", param |-> "", ref |-> 0, raced |-> FALSE, ret |-> NotFound]

\* log.Fatal was called, or the runtime threw: the process is gone
Exited ==
    \/ updater.pc = "fatal"
    \/ \E f \in DOMAIN finder : finder[f].ret.err = FatalMapRace

\* var apis = make(map[string]model.Api): the package starts with an
\* empty map object
InitApi ==
    /\ PipelineIdle
    /\ HandlesIdle
    /\ apiHeap = <<MapObject(<<>>)>>
    /\ apis = 1
    /\ Mutex = 0
    /\ updater = IdleUpdater
    /\ finder = [f \in 1..Finders |-> IdleFinder]

ApiUnchanged == UNCHANGED handleVars /\ PipelineUnchanged

\* the tick: UpdateApiList calls mutex.Lock()
Upd_Lock ==
    /\ ~Exited /\ updater.pc = "idle" /\ updater.count < MaxRefresh
    /\ Mutex = 0
    /\ Mutex' = UpdaterId
    /\ updater' = [updater EXCEPT !.pc = "query"]
    /\ UNCHANGED <<apis, apiHeap, finder>>
    /\ ApiUnchanged

\* list, err := db.In_getApiList(ctx) with err = nil
Upd_Query ==
    /\ ~Exited /\ updater.pc = "query"
    /\ \E list \in ApiLists(updater.count + 1) :
           updater' = [updater EXCEPT !.pc = "make", !.list = list]
    /\ UNCHANGED <<apis, apiHeap, Mutex, finder>>
    /\ ApiUnchanged

\* err # nil: log.Fatal(err.Error())
Upd_Fatal ==
    /\ ~Exited /\ updater.pc = "query"
    /\ updater' = [updater EXCEPT !.pc = "fatal"]
    /\ UNCHANGED <<apis, apiHeap, Mutex, finder>>
    /\ ApiUnchanged

\* Variant: the map in use is emptied and filled again.
Upd_Make_InPlace ==
    /\ ~Exited /\ updater.pc = "make"
    /\ apiHeap' = [apiHeap EXCEPT ![apis] = MapObject(updater.list)]
    /\ updater' = [updater EXCEPT !.pc = "fill", !.idx = 1]
    /\ UNCHANGED <<apis, Mutex, finder>>
    /\ ApiUnchanged

\* apis = make(map[string]model.Api)
Upd_Make ==
    /\ ~Exited /\ updater.pc = "make"
    /\ apiHeap' = Append(apiHeap, MapObject(updater.list))
    /\ apis' = Len(apiHeap) + 1
    /\ updater' = [updater EXCEPT !.pc = "fill", !.idx = 1]
    /\ UNCHANGED <<Mutex, finder>>
    /\ ApiUnchanged

\* apis[api.Alias] = api, for the next api of the list; a read of the
\* same map object in progress is a data race
Upd_Insert ==
    /\ ~Exited /\ updater.pc = "fill" /\ updater.idx <= Len(updater.list)
    /\ LET api == updater.list[updater.idx]
       IN  apiHeap' = [apiHeap EXCEPT ![apis].map = Put(@, api.Alias, api)]
    /\ updater' = [updater EXCEPT !.idx = @ + 1]
    /\ finder' = [f \in DOMAIN finder |->
                     IF finder[f].pc = "reading" /\ finder[f].ref = apis
                     THEN [finder[f] EXCEPT !.raced = TRUE] ELSE finder[f]]
    /\ UNCHANGED <<apis, Mutex>>
    /\ ApiUnchanged

\* the list is done: mutex.Unlock()
Upd_Unlock ==
    /\ ~Exited /\ updater.pc = "fill" /\ updater.idx > Len(updater.list)
    /\ Mutex' = 0
    /\ updater' = [updater EXCEPT !.pc = "idle", !.count = @ + 1]
    /\ UNCHANGED <<apis, apiHeap, finder>>
    /\ ApiUnchanged

\* In_findApi(param): core.Mutex.Lock()
Find_Lock(f, param) ==
    /\ ~Exited /\ finder[f].pc = "idle"
    /\ Mutex = 0
    /\ Mutex' = f
    /\ finder' = [finder EXCEPT ![f] = [@ EXCEPT !.pc = "get", !.param = param]]
    /\ UNCHANGED <<apis, apiHeap, updater>>
    /\ ApiUnchanged

\* apis := core.GetApiList()
Find_Get(f) ==
    /\ ~Exited /\ finder[f].pc = "get"
    /\ finder' = [finder EXCEPT ![f] = [@ EXCEPT !.pc = "unlock", !.ref = apis]]
    /\ UNCHANGED <<apis, apiHeap, Mutex, updater>>
    /\ ApiUnchanged

\* core.Mutex.Unlock()
Find_Unlock(f) ==
    /\ ~Exited /\ finder[f].pc = "unlock"
    /\ Mutex' = 0
    /\ finder' = [finder EXCEPT ![f] = [@ EXCEPT !.pc = "find"]]
    /\ UNCHANGED <<apis, apiHeap, updater>>
    /\ ApiUnchanged

\* apis[param] begins, on the map object fetched
Find_Begin(f) ==
    /\ ~Exited /\ finder[f].pc = "find"
    /\ finder' = [finder EXCEPT ![f] = [@ EXCEPT !.pc = "reading"]]
    /\ UNCHANGED <<apis, apiHeap, Mutex, updater>>
    /\ ApiUnchanged

\* the read ends and In_findApi returns
Find_End(f) ==
    /\ ~Exited /\ finder[f].pc = "reading"
    /\ \E got \in (IF finder[f].raced THEN RacedFinds(finder[f].param)
                   ELSE {FindIn(apiHeap[finder[f].ref].map, finder[f].param)}) :
           finder' = [finder EXCEPT ![f] = [@ EXCEPT !.pc = "returned", !.ret = got]]
    /\ UNCHANGED <<apis, apiHeap, Mutex, updater>>
    /\ ApiUnchanged

NextApi ==
    \/ Upd_Lock \/ Upd_Query \/ Upd_Fatal \/ Upd_Make \/ Upd_Insert \/ Upd_Unlock
    \/ \E f \in 1..Finders :
           \/ \E param \in Aliases : Find_Lock(f, param)
           \/ Find_Get(f) \/ Find_Unlock(f) \/ Find_Begin(f) \/ Find_End(f)

SpecApi == InitApi /\ [][NextApi]_vars

(* ------------------------------------------------------------------ *)
(* C38                                                                 *)
(* ------------------------------------------------------------------ *)
\* the map a complete list gives
MapOf(list) ==
    [alias \in { list[i].Alias : i \in 1..Len(list) } |->
        list[CHOOSE i \in 1..Len(list) : list[i].Alias = alias]]

Complete(ref) == apiHeap[ref].map = MapOf(apiHeap[ref].list)

\* the finders that hold a map object fetched under the lock
Holding == { f \in DOMAIN finder : finder[f].pc \in {"unlock", "find", "reading", "returned"} }

LookupSound ==
    \A f \in Holding :
        /\ finder[f].ref \in 1..apis
        /\ Complete(finder[f].ref)
        /\ ~finder[f].raced
        /\ finder[f].pc = "returned" =>
               finder[f].ret = FindIn(MapOf(apiHeap[finder[f].ref].list), finder[f].param)

MapHeldUnmodified ==
    \A f \in Holding :
        finder[f].pc \in {"find", "reading"} =>
            apiHeap'[finder[f].ref] = apiHeap[finder[f].ref]

\* C38: a lookup that runs concurrently with the refresh never observes a
\* partially filled list: the map object it fetched is the complete list
\* that was installed before the refresh or the complete list the refresh
\* installed, its answer is that list's, and no step modifies the map
\* object between the fetch and the end of the read.
C38_LookupSeesCompleteList ==
    /\ [](finder # <<>> => LookupSound)
    /\ [][(finder # <<>>) => MapHeldUnmodified]_vars

\* a lookup reads the list of the first refresh while the second refresh
\* is filling its map
C38_Witness ==
    /\ finder # <<>>
    /\ updater.pc = "fill" /\ updater.idx > 1
    /\ \E f \in DOMAIN finder :
           /\ finder[f].pc = "reading"
           /\ finder[f].ref # apis
           /\ finder[f].param \in DOMAIN apiHeap[finder[f].ref].map

====
